---- MODULE Spec2Model ----
(***************************************************************************)
(* A model of seedup: the dependency ordering and transactional replay of  *)
(* seed artifacts (pkg/seed/apply.go), seed capture (pkg/seed/create.go),  *)
(* migration flattening (pkg/migrate/flatten.go), the schema dump          *)
(* (pkg/pgconn DumpSchema) and the literal quoting (pkg/pgconn/serialize). *)
(***************************************************************************)
EXTENDS Integers, Sequences, FiniteSets, TLC

(***************************************************************************)
(* Bounds of the model.                                                    *)
(***************************************************************************)
\* Number of tables of the database.  Tables are numbered in the byte order
\* of their schema-qualified names, so sort.Strings is ascending order.
NumTables == 3
\* Largest number of foreign-key rows the catalog holds.
MaxFks == 2
\* Largest number of rows the population script puts in one staging table.
MaxRows == 2
\* Largest number of objects the catalog holds for one schema dump.
MaxObjects == 3
\* Largest migration version, and largest number of files in the migrations
\* directory.
MaxVersion == 3
MaxFiles == 3
\* Longest string handed to QuoteString.
MaxStrLen == 3

AllTables == 1..NumTables

(***************************************************************************)
(* Sequences and graphs.                                                   *)
(***************************************************************************)
Range(s) == {s[i] : i \in DOMAIN s}

\* All the lists that hold every element of S exactly once.
Perms(S) ==
    {s \in [1..Cardinality(S) -> S] :
        \A i, j \in 1..Cardinality(S) : i # j => s[i] # s[j]}

NoDuplicates(s) == \A i, j \in DOMAIN s : i # j => s[i] # s[j]

\* The position of x in the duplicate-free list s (0 when absent).
Pos(s, x) == IF x \in Range(s) THEN CHOOSE i \in DOMAIN s : s[i] = x ELSE 0

Reverse(s) == [i \in 1..Len(s) |-> s[Len(s) + 1 - i]]

\* The subsets of S with at most n elements.
RECURSIVE SubsetsUpTo(_, _)
SubsetsUpTo(S, n) ==
    IF n = 0 THEN {{}}
    ELSE LET smaller == SubsetsUpTo(S, n - 1)
         IN  smaller \cup {T \cup {x} : T \in smaller, x \in S}

\* The nodes reachable from the set F along one or more edges of E
\* (an edge is <<dependent, referenced>>).
RECURSIVE ReachFrom(_, _)
ReachFrom(E, F) ==
    LET G == F \cup {e[2] : e \in {x \in E : x[1] \in F}}
    IN  IF G = F THEN F ELSE ReachFrom(E, G)

Successors(E, n) == {e[2] : e \in {x \in E : x[1] = n}}

Acyclic(E) == \A e \in E : e[1] \notin ReachFrom(E, {e[2]}) /\ e[1] # e[2]

\* The edges of E with both ends in S.
Restrict(E, S) == {e \in E : e[1] \in S /\ e[2] \in S}

(***************************************************************************)
(* State.                                                                  *)
(***************************************************************************)
VARIABLES
    \* ---- the database and the seed directory
    fks,          \* catalog: the FOREIGN KEY rows <<dependent, referenced>>
    dbData,       \* committed content of each table
    seedDir,      \* the tables that have a <table>.sql file in seedDir
    artifactKind, \* table -> what its file holds ("unread" until it is read)
    \* ---- Seeder.getImportOrder (pkg/seed/apply.go)
    tables,       \* the input list
    fkQuery,      \* outcome of the catalog query: "none", "ok", "queryErr", "rowsErr"
    deps,         \* table -> tables it depends on
    inDegree,     \* table -> counter
    queue,        \* the ready queue
    result,       \* the output list
    cur,          \* the table taken from the queue (0: none)
    pending,      \* keys of deps the range loop has not visited yet
    \* ---- Seeder.loadSeedData (pkg/seed/apply.go)
    pc,           \* position of the running function
    idx,          \* loop index
    txOpen,       \* a transaction is open
    txData,       \* content of each table as the open transaction sees it
    txLog,        \* what the function did on the transaction, in order
    csvFiles,     \* the glob of seedDir found *.csv files
    ret           \* "running", "ok", "err"

VARIABLES
    \* ---- Seeder.extractSeedData (pkg/seed/create.go)
    capTables,    \* the table list passed to capture
    noColumns,    \* the tables whose staging table shows no columns
    capPc,        \* position of extractSeedData
    capIdx,       \* loop index
    capTxOpen,    \* the capture transaction is open
    scriptFile,   \* "unread", "unset", "missing", "unreadable", "present", "failed"
    txTemps,      \* staging tables created in the open transaction
    staging,      \* table -> rows of its staging table in the transaction
    txWrote,      \* the script wrote to real tables in the transaction
    srcTemps,     \* staging tables that outlive the transaction
    srcWrote,     \* writes to real tables that outlive the transaction
    outputDir,    \* the artifact files of outputDir: table -> content
    writes,       \* the tables os.WriteFile was called for, in order
    capRet        \* "running", "ok", "err"

VARIABLES
    \* ---- pgconn.DumpSchema
    catalog,       \* the schema objects the catalog queries return
    columnless,    \* the tables information_schema.columns shows no column of
    excludeTables, \* the excludeTables argument
    phase,         \* the phase DumpSchema is at (0: not called)
    parts,         \* the local parts: the lines collected so far
    dumpOut,       \* the returned text, as its lines
    dumpRet,       \* "running", "ok", "err"
    failedPhases   \* the phases in which a catalog query or a scan failed

VARIABLES
    \* ---- migrate.Flattener
    ledgerExists,  \* the table goose_db_version exists
    appliedRows,   \* the version_id of its rows WHERE is_applied
    migrationsDir, \* the migrations directory: file -> content
    dirAtStart,    \* the directory as Flatten found it
    versions,      \* the local versions
    schema,        \* the local schema
    flatPc,        \* where Flatten is
    flatRet        \* "running", "ok", "err"

VARIABLES
    \* ---- pgconn.QuoteString
    qInput,        \* the argument s, as its characters
    qLiteral,      \* the literal returned
    qPc,           \* "idle", "call", "returned", "callDollar", "returnedDollar",
                   \* "callSerialize", "returnedSerialize"
    qTag,          \* the local tag of quoteDollar
    value,         \* the argument value of SerializeValue
    pgType,        \* the argument pgType of SerializeValue
    \* ---- pgconn.dumpTables, one column
    column,        \* the row scanned from information_schema.columns
    generatedExpr, \* the entry of generatedCols for the column
    colDef         \* the local colDef when the column is appended

VARIABLES
    \* ---- Seeder.Apply and the migrations it runs
    applyPc,           \* where Apply is
    pendingMigrations, \* the number of migrations not applied yet
    migrationsRun,     \* the number of migrations Apply has run
    applyRet,          \* "running", "ok", "err"
    run,               \* which call of loadSeedData is running (0: a lone call)
    afterFirst         \* the committed content after the first of two calls

VARIABLES
    \* ---- seedup.SeedCreate and Seeder.Create
    dryRun,        \* opts.DryRun
    noFlatten,     \* opts.NoFlatten
    createPc,      \* where SeedCreate and Create are
    createRet,     \* what SeedCreate returns: "running", "ok", "err"
    seedDirExists, \* the seed directory exists
    seedFiles,     \* the files of the seed directory: file -> content
    seedAtStart,   \* the files of the seed directory before the call
    copyIdx,       \* index of the loop over newSQLs
    flattenCalls   \* how many times Flatten has been called

orderVars == <<tables, fkQuery, deps, inDegree, queue, result, cur, pending>>
replayVars == <<fks, dbData, seedDir, artifactKind, pc, idx, txOpen, txData, txLog, csvFiles, ret>>
captureVars == <<capTables, noColumns, capPc, capIdx, capTxOpen, scriptFile, txTemps,
                 staging, txWrote, srcTemps, srcWrote, outputDir, writes, capRet>>
dumpVars == <<catalog, columnless, excludeTables, phase, parts, dumpOut, dumpRet,
              failedPhases>>
flattenVars == <<ledgerExists, appliedRows, migrationsDir, dirAtStart, versions, schema,
                 flatPc, flatRet>>
quoteVars == <<qInput, qLiteral, qPc, qTag, value, pgType, column, generatedExpr, colDef>>
applyVars == <<applyPc, pendingMigrations, migrationsRun, applyRet, run, afterFirst>>
createVars == <<dryRun, noFlatten, createPc, createRet, seedDirExists, seedFiles,
                seedAtStart, copyIdx, flattenCalls>>
vars == <<orderVars, replayVars, captureVars, dumpVars, flattenVars, quoteVars, applyVars,
          createVars>>

\* The variables outside Seeder.Apply, outside Seeder.Create and outside
\* DumpSchema.
outsideSeeder == <<captureVars, dumpVars, flattenVars, quoteVars, createVars>>
outsideApply == <<outsideSeeder, applyVars>>
outsideCapture == <<orderVars, replayVars, dumpVars, flattenVars, quoteVars, applyVars,
                    createVars>>
outsideDump == <<orderVars, replayVars, captureVars, flattenVars, quoteVars, applyVars,
                 createVars>>
outsideFlatten == <<orderVars, replayVars, captureVars, quoteVars, applyVars, createVars>>
outsideQuote == <<orderVars, replayVars, captureVars, dumpVars, flattenVars, applyVars,
                  createVars>>
outsideCreate == <<orderVars, replayVars, quoteVars, applyVars>>

\* Content of a table: the rows it held before the run, none, or seed rows.
Contents == {"orig", "empty", "seeded", "orig+seeded", "seeded-twice"}
InitialData == [t \in AllTables |-> "orig"]

\* No artifact file has been read.
Unread == [t \in AllTables |-> "unread"]

\* No capture is running.
CaptureIdle ==
    /\ capTables = <<>>
    /\ noColumns = {}
    /\ capPc = "idle"
    /\ capIdx = 0
    /\ capTxOpen = FALSE
    /\ scriptFile = "unread"
    /\ txTemps = {}
    /\ staging = <<>>
    /\ txWrote = FALSE
    /\ srcTemps = {}
    /\ srcWrote = FALSE
    /\ outputDir = <<>>
    /\ writes = <<>>
    /\ capRet = "running"

\* SeedCreate is not called.
CreateIdle ==
    /\ dryRun = FALSE
    /\ noFlatten = FALSE
    /\ createPc = "idle"
    /\ createRet = "running"
    /\ seedDirExists = FALSE
    /\ seedFiles = <<>>
    /\ seedAtStart = <<>>
    /\ copyIdx = 0
    /\ flattenCalls = 0

\* A time.Time: a wall clock reading with microseconds and the offset of
\* its zone from UTC in minutes.
Time(year, month, day, hour, min, sec, micro, offset) ==
    [year |-> year, month |-> month, day |-> day, hour |-> hour, min |-> min,
     sec |-> sec, micro |-> micro, offset |-> offset]

ZeroTime == Time(1, 1, 1, 0, 0, 0, 0, 0)

\* A value as the driver delivers it: kind is its dynamic type ("nil" for
\* the nil interface, "nilbytes" for a nil []byte, "ptr" for *interface{}
\* whose target has the dynamic type of).
Value(kind, of, b, n, s, t) == [kind |-> kind, of |-> of, b |-> b, n |-> n, s |-> s, t |-> t]

Nil == Value("nil", "none", FALSE, 0, <<>>, ZeroTime)

\* No column is being defined.
ColumnIdle ==
    /\ column = <<>>
    /\ generatedExpr = <<>>
    /\ colDef = ""

\* QuoteString, quoteDollar and SerializeValue are not called.
QuoteIdle ==
    /\ qInput = <<>>
    /\ qLiteral = <<>>
    /\ qPc = "idle"
    /\ qTag = <<>>
    /\ value = Nil
    /\ pgType = ""
    /\ ColumnIdle

\* No flatten is running.
FlattenIdle ==
    /\ ledgerExists = FALSE
    /\ appliedRows = {}
    /\ migrationsDir = <<>>
    /\ dirAtStart = <<>>
    /\ versions = <<>>
    /\ schema = <<>>
    /\ flatPc = "idle"
    /\ flatRet = "running"

\* No schema dump is running.
DumpIdle ==
    /\ catalog = {}
    /\ columnless = {}
    /\ excludeTables = {}
    /\ phase = 0
    /\ parts = <<>>
    /\ dumpOut = <<>>
    /\ dumpRet = "running"
    /\ failedPhases = {}

\* Apply is not called, and loadSeedData is not called twice.
SeederIdle ==
    /\ applyPc = "idle"
    /\ pendingMigrations = 0
    /\ migrationsRun = 0
    /\ applyRet = "running"
    /\ run = 0
    /\ afterFirst = InitialData

\* No replay is running.
ApplyIdle ==
    /\ SeederIdle
    /\ fks = {}
    /\ dbData = InitialData
    /\ seedDir = {}
    /\ artifactKind = Unread
    /\ tables = <<>>
    /\ fkQuery = "none"
    /\ deps = <<>>
    /\ inDegree = <<>>
    /\ queue = <<>>
    /\ result = <<>>
    /\ cur = 0
    /\ pending = {}
    /\ pc = "idle"
    /\ idx = 0
    /\ txOpen = FALSE
    /\ txData = InitialData
    /\ txLog = <<>>
    /\ csvFiles = FALSE
    /\ ret = "running"

(***************************************************************************)
(* Seeder.getImportOrder                                                   *)
(***************************************************************************)
\* sort.Strings: ascending order, by insertion.
InsertSorted(x, s) ==
    LET k == Cardinality({i \in 1..Len(s) : s[i] <= x})
    IN  SubSeq(s, 1, k) \o <<x>> \o SubSeq(s, k + 1, Len(s))

\* A plausible slip: the queue is left in the order of the appends.
Unsorted(s) == s

RECURSIVE SortStrings(_)
SortStrings(s) ==
    IF s = <<>> THEN <<>> ELSE InsertSorted(Head(s), SortStrings(Tail(s)))

\* The dependency map: only rows with both ends among the input tables.
BuildDeps(tbls, rows) ==
    [t \in Range(tbls) |-> {r \in Range(tbls) : <<t, r>> \in rows}]

\* A plausible slip: the counter counts the dependents of the table.
InDegreeOfDependents(d, t) == Cardinality({o \in DOMAIN d : t \in d[o]})

\* The counter of a table: the number of tables it depends on.
InDegreeOf(d, t) == Cardinality(d[t])

\* A plausible slip: a failed query returns no order at all.
FallbackNone(tbls) == <<>>

\* return tables, nil: what getImportOrder returns when the catalog query
\* or the iteration of its rows fails.
FallbackOrder(tbls) == tbls

\* getImportOrder up to the first pop: the empty input, the query and its
\* failures, the dependency map, the counters and the initial queue.
GetImportOrder ==
    /\ pc = "getImportOrder"
    /\ \/ /\ tables = <<>>
          /\ result' = <<>>
          /\ pc' = "ordered"
          /\ UNCHANGED <<fkQuery, deps, inDegree, queue>>
       \/ /\ tables # <<>>
          /\ \E outcome \in {"queryErr", "rowsErr"} : fkQuery' = outcome
          /\ result' = FallbackOrder(tables)
          /\ pc' = "ordered"
          /\ UNCHANGED <<deps, inDegree, queue>>
       \/ /\ tables # <<>>
          /\ fkQuery' = "ok"
          /\ deps' = BuildDeps(tables, fks)
          /\ inDegree' = [t \in Range(tables) |-> InDegreeOf(deps', t)]
          /\ queue' = SortStrings(SelectSeq(tables, LAMBDA t : inDegree'[t] = 0))
          /\ result' = <<>>
          /\ pc' = "kahn"
    /\ UNCHANGED <<tables, cur, pending>>
    /\ UNCHANGED <<fks, dbData, seedDir, artifactKind, idx, txOpen, txData, txLog, csvFiles,
                   ret>>
    /\ UNCHANGED outsideApply

\* Take the first table from the queue and start ranging over deps.
PopQueue ==
    /\ pc = "kahn"
    /\ queue # <<>>
    /\ cur' = Head(queue)
    /\ queue' = Tail(queue)
    /\ result' = Append(result, Head(queue))
    /\ pending' = DOMAIN deps
    /\ pc' = "range"
    /\ UNCHANGED <<tables, fkQuery, deps, inDegree>>
    /\ UNCHANGED <<fks, dbData, seedDir, artifactKind, idx, txOpen, txData, txLog, csvFiles,
                   ret>>
    /\ UNCHANGED outsideApply

\* One iteration of "for other, dependencies := range deps": Go ranges over
\* a map in an unspecified order, so the key is any key not visited yet.
VisitOther ==
    /\ pc = "range"
    /\ \E other \in pending :
        /\ pending' = pending \ {other}
        /\ IF cur \in deps[other]
           THEN /\ inDegree' = [inDegree EXCEPT ![other] = @ - 1]
                /\ queue' = IF inDegree'[other] = 0
                            THEN SortStrings(Append(queue, other))
                            ELSE queue
           ELSE UNCHANGED <<inDegree, queue>>
        /\ pc' = IF pending' = {} THEN "kahn" ELSE "range"
    /\ UNCHANGED <<tables, fkQuery, deps, result, cur>>
    /\ UNCHANGED <<fks, dbData, seedDir, artifactKind, idx, txOpen, txData, txLog, csvFiles,
                   ret>>
    /\ UNCHANGED outsideApply

\* A plausible slip: the tables the queue never held are forgotten.
RemainingNone(res, tbls) == <<>>

\* A plausible slip: the tables that were not emitted are appended sorted.
RemainingSorted(res, tbls) == SortStrings(SelectSeq(tbls, LAMBDA t : t \notin Range(res)))

\* The tables that were not emitted, in input order.
Remaining(res, tbls) == SelectSeq(tbls, LAMBDA t : t \notin Range(res))

\* The queue is empty: append the tables that were not emitted, in input
\* order, and return.
AppendRemaining ==
    /\ pc = "kahn"
    /\ queue = <<>>
    /\ result' = result \o Remaining(result, tables)
    /\ pc' = "ordered"
    /\ UNCHANGED <<tables, fkQuery, deps, inDegree, queue, cur, pending>>
    /\ UNCHANGED <<fks, dbData, seedDir, artifactKind, idx, txOpen, txData, txLog, csvFiles,
                   ret>>
    /\ UNCHANGED outsideApply

OrderNext == GetImportOrder \/ PopQueue \/ VisitOther \/ AppendRemaining

\* getImportOrder called on any list of distinct tables, over any catalog.
OrderInit ==
    /\ fks \in SubsetsUpTo(AllTables \X AllTables, MaxFks)
    /\ tables \in UNION {Perms(S) : S \in SUBSET AllTables}
    /\ fkQuery = "none"
    /\ deps = <<>>
    /\ inDegree = <<>>
    /\ queue = <<>>
    /\ result = <<>>
    /\ cur = 0
    /\ pending = {}
    /\ pc = "getImportOrder"
    /\ dbData = InitialData
    /\ seedDir = Range(tables)
    /\ artifactKind = Unread
    /\ idx = 0
    /\ txOpen = FALSE
    /\ txData = InitialData
    /\ txLog = <<>>
    /\ csvFiles = FALSE
    /\ ret = "running"
    /\ SeederIdle
    /\ CaptureIdle
    /\ DumpIdle
    /\ FlattenIdle
    /\ QuoteIdle
    /\ CreateIdle

SpecOrder == OrderInit /\ [][OrderNext]_vars

(***************************************************************************)
(* Seeder.loadSeedData                                                     *)
(***************************************************************************)
\* filepath.Glob returns the names of a directory sorted.
SortedList(S) == CHOOSE s \in Perms(S) : \A i, j \in DOMAIN s : i < j => s[i] < s[j]

LogEntry(op, t) == [op |-> op, table |-> t]

\* What an artifact file holds: nothing but white space, the no-data
\* comment, or INSERT statements.
ArtifactKinds == {"blank", "nodata", "inserts"}

\* A file of the seed directory: <base>.<ext>.  The artifact of table t is
\* <schema>.<table>.sql, base t; base 0 names the files that belong to no
\* table, such as the population script dump.sql.
SeedFile(base, ext) == [base |-> base, ext |-> ext]

\* strings.HasPrefix.
HasPrefix(str, prefix) ==
    Len(str) >= Len(prefix) /\ SubSeq(str, 1, Len(prefix)) = prefix

\* What loadSeedData finds in the content of a file: nothing after
\* strings.TrimSpace, the prefix "-- No data", or statements to execute.
ContentKind(file) ==
    IF file.lines = <<>> THEN "blank"
    ELSE IF HasPrefix(file.lines[1].stmt, "-- No data") THEN "nodata"
    ELSE "inserts"

\* What the file of table t can hold: the content of the file capture left
\* in the seed directory; for any other file, what it held when it was read
\* before.
KindsOf(t) ==
    IF SeedFile(t, "sql") \in DOMAIN seedFiles
    THEN {ContentKind(seedFiles[SeedFile(t, "sql")])}
    ELSE IF artifactKind[t] = "unread" THEN ArtifactKinds ELSE {artifactKind[t]}

\* The INSERT statements of an artifact add its rows to what the table holds.
InsertRows(content) ==
    CASE content = "empty" -> "seeded"
      [] content = "orig" -> "orig+seeded"
      [] OTHER -> "seeded-twice"

\* "Skip empty files or comment-only files".
SkipArtifact(kind) == kind = "blank" \/ kind = "nodata"

\* A plausible slip: no table is emptied before the artifacts are executed.
TruncateNothing(data, t) == data

\* TRUNCATE TABLE t CASCADE empties t and every table that references it,
\* directly or through other tables.
TruncateCascade(data, t) ==
    [x \in AllTables |->
        IF x = t \/ t \in ReachFrom(fks, Successors(fks, x))
        THEN "empty" ELSE data[x]]

\* A plausible slip: the truncate loop runs forward.
TruncateOrderForward(ordered) == ordered

\* The truncate loop walks orderedTables from the last index down to 0.
TruncateOrder(ordered) == Reverse(ordered)

\* A plausible slip: leaving the function persists what the transaction did.
TxRollbackLeaks ==
    /\ txOpen' = FALSE
    /\ dbData' = txData
    /\ txData' = txData

\* defer tx.Rollback(): the open transaction is discarded.
TxRollback ==
    /\ txOpen' = FALSE
    /\ dbData' = dbData
    /\ txData' = dbData

\* return fmt.Errorf(...) with the transaction open.
ReturnErrorInTx ==
    /\ ret' = "err"
    /\ pc' = "done"
    /\ TxRollback

\* A plausible slip: CSV files are not looked at.
LegacyIgnored(csv, sqlFiles) == FALSE

\* len(csvFiles) > 0 && len(sqlFiles) == 0.
LegacyOnly(csv, sqlFiles) == csv /\ sqlFiles = {}

\* Open the database, glob the seed directory, reject a legacy directory,
\* return on an empty one, build the table list.
FindSQLFiles ==
    /\ pc = "loadSeedData"
    /\ \/ /\ ret' = "err"                          \* pgconn.Open fails
          /\ pc' = "done"
          /\ UNCHANGED <<tables, csvFiles>>
       \/ \E csv \in BOOLEAN :
            /\ csvFiles' = csv
            /\ IF LegacyOnly(csv, seedDir)
               THEN ret' = "err" /\ pc' = "done" /\ UNCHANGED tables
               ELSE IF seedDir = {}
               THEN ret' = "ok" /\ pc' = "done" /\ UNCHANGED tables
               ELSE /\ tables' = SortedList(seedDir)
                    /\ pc' = "getImportOrder"
                    /\ UNCHANGED ret
    /\ UNCHANGED <<fkQuery, deps, inDegree, queue, result, cur, pending>>
    /\ UNCHANGED <<fks, dbData, seedDir, artifactKind, idx, txOpen, txData, txLog>>
    /\ UNCHANGED outsideApply

\* db.BeginTx, then defer tx.Rollback().
BeginTx ==
    /\ pc = "ordered"
    /\ \/ /\ ret' = "err"
          /\ pc' = "done"
          /\ UNCHANGED <<txOpen, txData, idx>>
       \/ /\ txOpen' = TRUE
          /\ txData' = dbData
          /\ idx' = 1
          /\ pc' = "truncate"
          /\ UNCHANGED ret
    /\ UNCHANGED orderVars
    /\ UNCHANGED <<fks, dbData, seedDir, artifactKind, txLog, csvFiles>>
    /\ UNCHANGED outsideApply

\* One iteration of the truncate loop.
Truncate ==
    /\ pc = "truncate"
    /\ LET table == TruncateOrder(result)[idx]
       IN  \/ /\ ReturnErrorInTx
              /\ UNCHANGED <<txLog, idx>>
           \/ /\ txLog' = Append(txLog, LogEntry("TRUNCATE", table))
              /\ txData' = TruncateCascade(txData, table)
              /\ IF idx = Len(result)
                 THEN idx' = 1 /\ pc' = "insert"
                 ELSE idx' = idx + 1 /\ pc' = "truncate"
              /\ UNCHANGED <<txOpen, dbData, ret>>
    /\ UNCHANGED orderVars
    /\ UNCHANGED <<fks, seedDir, artifactKind, csvFiles>>
    /\ UNCHANGED outsideApply

\* One iteration of the artifact loop: read the file, skip it when it holds
\* no data, execute it otherwise.
LoadArtifact ==
    /\ pc = "insert"
    /\ LET table == result[idx]
           next == IF idx = Len(result) THEN "commit" ELSE "insert"
       IN  \/ /\ ReturnErrorInTx                   \* os.ReadFile fails
              /\ UNCHANGED <<txLog, idx, artifactKind>>
           \/ \E kind \in KindsOf(table) :
                /\ SkipArtifact(kind)
                /\ artifactKind' = [artifactKind EXCEPT ![table] = kind]
                /\ txLog' = Append(txLog, LogEntry("SKIP", table))
                /\ idx' = idx + 1
                /\ pc' = next
                /\ UNCHANGED <<txOpen, txData, dbData, ret>>
           \/ \E kind \in KindsOf(table) :
                /\ ~SkipArtifact(kind)
                /\ artifactKind' = [artifactKind EXCEPT ![table] = kind]
                /\ txLog' = Append(txLog, LogEntry("EXEC-FAILED", table))
                /\ ReturnErrorInTx                 \* tx.ExecContext fails
                /\ UNCHANGED idx
           \/ \E kind \in KindsOf(table) :
                /\ ~SkipArtifact(kind)
                /\ artifactKind' = [artifactKind EXCEPT ![table] = kind]
                /\ txLog' = Append(txLog, LogEntry("EXEC", table))
                /\ txData' = [txData EXCEPT ![table] = InsertRows(@)]
                /\ idx' = idx + 1
                /\ pc' = next
                /\ UNCHANGED <<txOpen, dbData, ret>>
    /\ UNCHANGED orderVars
    /\ UNCHANGED <<fks, seedDir, csvFiles>>
    /\ UNCHANGED outsideApply

\* tx.Commit(): on success the transaction's content becomes the database's.
Commit ==
    /\ pc = "commit"
    /\ \/ /\ ReturnErrorInTx
          /\ UNCHANGED txLog
       \/ /\ txLog' = Append(txLog, LogEntry("COMMIT", 0))
          /\ dbData' = txData
          /\ txOpen' = FALSE
          /\ ret' = "ok"
          /\ pc' = "done"
          /\ UNCHANGED txData
    /\ UNCHANGED orderVars
    /\ UNCHANGED <<fks, seedDir, artifactKind, idx, csvFiles>>
    /\ UNCHANGED outsideApply

ReplayNext ==
    \/ FindSQLFiles
    \/ GetImportOrder
    \/ PopQueue
    \/ VisitOther
    \/ AppendRemaining
    \/ BeginTx
    \/ Truncate
    \/ LoadArtifact
    \/ Commit

\* loadSeedData on any seed directory, over any catalog.
ReplayInit ==
    /\ fks \in SubsetsUpTo(AllTables \X AllTables, MaxFks)
    /\ seedDir \in SUBSET AllTables
    /\ artifactKind = Unread
    /\ tables = <<>>
    /\ fkQuery = "none"
    /\ deps = <<>>
    /\ inDegree = <<>>
    /\ queue = <<>>
    /\ result = <<>>
    /\ cur = 0
    /\ pending = {}
    /\ pc = "loadSeedData"
    /\ dbData = InitialData
    /\ idx = 0
    /\ txOpen = FALSE
    /\ txData = InitialData
    /\ txLog = <<>>
    /\ csvFiles = FALSE
    /\ ret = "running"
    /\ SeederIdle
    /\ CaptureIdle
    /\ DumpIdle
    /\ FlattenIdle
    /\ QuoteIdle
    /\ CreateIdle

SpecReplay == ReplayInit /\ [][ReplayNext]_vars

(***************************************************************************)
(* Seeder.Apply                                                            *)
(***************************************************************************)
\* The state loadSeedData starts from: its locals are fresh.
EnterLoadSeedData ==
    /\ pc' = "loadSeedData"
    /\ ret' = "running"
    /\ tables' = <<>>
    /\ fkQuery' = "none"
    /\ deps' = <<>>
    /\ inDegree' = <<>>
    /\ queue' = <<>>
    /\ result' = <<>>
    /\ cur' = 0
    /\ pending' = {}
    /\ idx' = 0
    /\ txOpen' = FALSE
    /\ txData' = dbData
    /\ txLog' = <<>>
    /\ csvFiles' = FALSE
    /\ UNCHANGED <<fks, dbData, seedDir, artifactKind>>

\* goose.UpByOne: the pending migrations after one more is applied.
AfterUpByOne(n) == n - 1

\* goose.Up: the pending migrations after all of them are applied.
AfterUp(n) == 0

\* Migrator.UpByOneAllowNoop, then the call of loadSeedData: the step fails
\* and Apply returns; or no migration is pending (ErrNoNextVersion is not an
\* error); or the next pending migration is applied.
UpByOneAllowNoop ==
    /\ applyPc = "upByOne"
    /\ \/ /\ applyRet' = "err"
          /\ applyPc' = "done"
          /\ UNCHANGED <<pendingMigrations, migrationsRun>>
          /\ UNCHANGED <<orderVars, replayVars>>
       \/ /\ pendingMigrations = 0
          /\ applyPc' = "load"
          /\ EnterLoadSeedData
          /\ UNCHANGED <<pendingMigrations, migrationsRun, applyRet>>
       \/ /\ pendingMigrations > 0
          /\ pendingMigrations' = AfterUpByOne(pendingMigrations)
          /\ migrationsRun' = migrationsRun + (pendingMigrations - pendingMigrations')
          /\ applyPc' = "load"
          /\ EnterLoadSeedData
          /\ UNCHANGED applyRet
    /\ UNCHANGED <<run, afterFirst>>
    /\ UNCHANGED outsideSeeder

\* loadSeedData returns to Apply: its error ends Apply.
LoadSeedDataReturns ==
    /\ applyPc = "load"
    /\ pc = "done"
    /\ \/ /\ ret = "err"
          /\ applyRet' = "err"
          /\ applyPc' = "done"
       \/ /\ ret = "ok"
          /\ applyPc' = "up"
          /\ UNCHANGED applyRet
    /\ UNCHANGED <<pendingMigrations, migrationsRun, run, afterFirst>>
    /\ UNCHANGED <<orderVars, replayVars>>
    /\ UNCHANGED outsideSeeder

\* Migrator.Up, the last step of Apply: every pending migration is applied,
\* or the step fails having applied some of them.
MigratorUp ==
    /\ applyPc = "up"
    /\ \/ /\ pendingMigrations' = AfterUp(pendingMigrations)
          /\ applyRet' = "ok"
       \/ /\ \E left \in 1..pendingMigrations : pendingMigrations' = left
          /\ applyRet' = "err"
       \/ /\ pendingMigrations = 0                  \* openDB fails
          /\ UNCHANGED pendingMigrations
          /\ applyRet' = "err"
    /\ migrationsRun' = migrationsRun + (pendingMigrations - pendingMigrations')
    /\ applyPc' = "done"
    /\ UNCHANGED <<run, afterFirst>>
    /\ UNCHANGED <<orderVars, replayVars>>
    /\ UNCHANGED outsideSeeder

ApplyNext ==
    \/ UpByOneAllowNoop
    \/ ReplayNext
    \/ LoadSeedDataReturns
    \/ MigratorUp

\* Apply on any seed directory with any number of pending migrations.
ApplyInit ==
    /\ fks \in SubsetsUpTo(AllTables \X AllTables, 1)
    /\ seedDir \in SUBSET AllTables
    /\ artifactKind = Unread
    /\ tables = <<>>
    /\ fkQuery = "none"
    /\ deps = <<>>
    /\ inDegree = <<>>
    /\ queue = <<>>
    /\ result = <<>>
    /\ cur = 0
    /\ pending = {}
    /\ pc = "idle"
    /\ dbData = InitialData
    /\ idx = 0
    /\ txOpen = FALSE
    /\ txData = InitialData
    /\ txLog = <<>>
    /\ csvFiles = FALSE
    /\ ret = "running"
    /\ applyPc = "upByOne"
    /\ pendingMigrations \in 0..MaxVersion
    /\ migrationsRun = 0
    /\ applyRet = "running"
    /\ run = 0
    /\ afterFirst = InitialData
    /\ CaptureIdle
    /\ DumpIdle
    /\ FlattenIdle
    /\ QuoteIdle
    /\ CreateIdle

SpecApply == ApplyInit /\ [][ApplyNext]_vars

(***************************************************************************)
(* Seeder.loadSeedData, called twice in a row                              *)
(***************************************************************************)
\* The first call has returned nil: the second call starts on the same
\* directory and the same database.
LoadSeedDataAgain ==
    /\ run = 1
    /\ pc = "done"
    /\ ret = "ok"
    /\ run' = 2
    /\ afterFirst' = dbData
    /\ EnterLoadSeedData
    /\ UNCHANGED <<applyPc, pendingMigrations, migrationsRun, applyRet>>
    /\ UNCHANGED outsideSeeder

TwiceNext ==
    \/ ReplayNext
    \/ LoadSeedDataAgain

\* Two calls of loadSeedData on any seed directory, over any catalog.
TwiceInit ==
    /\ fks \in SubsetsUpTo(AllTables \X AllTables, MaxFks)
    /\ seedDir \in SUBSET AllTables
    /\ artifactKind = Unread
    /\ tables = <<>>
    /\ fkQuery = "none"
    /\ deps = <<>>
    /\ inDegree = <<>>
    /\ queue = <<>>
    /\ result = <<>>
    /\ cur = 0
    /\ pending = {}
    /\ pc = "loadSeedData"
    /\ dbData = InitialData
    /\ idx = 0
    /\ txOpen = FALSE
    /\ txData = InitialData
    /\ txLog = <<>>
    /\ csvFiles = FALSE
    /\ ret = "running"
    /\ applyPc = "idle"
    /\ pendingMigrations = 0
    /\ migrationsRun = 0
    /\ applyRet = "running"
    /\ run = 1
    /\ afterFirst = InitialData
    /\ CaptureIdle
    /\ DumpIdle
    /\ FlattenIdle
    /\ QuoteIdle
    /\ CreateIdle

SpecTwice == TwiceInit /\ [][TwiceNext]_vars

(***************************************************************************)
(* Seeder.extractSeedData and Seeder.exportTableToSQL                      *)
(***************************************************************************)
\* An artifact file: the no-data comment, or one INSERT statement per row.
Artifact(marker, n) == [marker |-> marker, inserts |-> n]

\* The content exportTableToSQL writes for a staging table of n rows.
ArtifactContent(n) == IF n > 0 THEN Artifact(FALSE, n) ELSE Artifact(TRUE, 0)

\* "INSERT INTO <schema>.<table> (...) VALUES (...);" for one staging row:
\* table is the real table, not its staging table.
InsertStatement(t, row) == [stmt |-> "INSERT INTO", table |-> t, row |-> row]

\* A plausible slip: the comment is spelled otherwise than replay expects.
NoDataCommentLower(t) == [stmt |-> "-- no data for table", table |-> t, row |-> 0]

\* "-- No data for table <schema>.<table>".
NoDataComment(t) == [stmt |-> "-- No data for table", table |-> t, row |-> 0]

\* A plausible slip: a table without rows gets an empty file.
InsertsOnly(t, n) == [i \in 1..n |-> InsertStatement(t, i)]

\* The lines of the file: one INSERT per row, or the no-data comment.
ArtifactLines(t, n) ==
    IF n > 0 THEN [i \in 1..n |-> InsertStatement(t, i)] ELSE <<NoDataComment(t)>>

\* The file os.WriteFile leaves for table t with n staging rows.
ArtifactFile(t, n) ==
    [marker |-> ArtifactContent(n).marker,
     inserts |-> ArtifactContent(n).inserts,
     lines |-> ArtifactLines(t, n)]

\* A plausible slip: a missing population script is an error like any other.
ScriptRequired(kind) == kind = "unset"

\* queryFile == "" or os.IsNotExist(err): capture goes on without a script.
ScriptOptional(kind) == kind \in {"unset", "missing"}

\* A plausible slip: a table without rows is skipped like one without columns.
SkipsTableWithoutRows(t) == t \in noColumns \/ staging[t] = 0

\* len(columns) == 0: the table is skipped with a warning, no file is written.
SkipsTable(t) == t \in noColumns

\* defer tx.Rollback() of extractSeedData: nothing of the transaction stays.
CaptureRollback ==
    /\ capTxOpen' = FALSE
    /\ UNCHANGED <<srcTemps, srcWrote>>

\* return fmt.Errorf(...) with the capture transaction open.
CaptureReturnError ==
    /\ capRet' = "err"
    /\ capPc' = "done"
    /\ CaptureRollback

\* db.BeginTx, then defer tx.Rollback().
CaptureBegin ==
    /\ capPc = "begin"
    /\ \/ /\ capRet' = "err"
          /\ capPc' = "done"
          /\ UNCHANGED <<capTxOpen, capIdx>>
       \/ /\ capTxOpen' = TRUE
          /\ capIdx' = 1
          /\ capPc' = IF capTables = <<>> THEN "script" ELSE "createTemp"
          /\ UNCHANGED capRet
    /\ UNCHANGED <<capTables, noColumns, scriptFile, txTemps, staging, txWrote,
                   srcTemps, srcWrote, outputDir, writes>>
    /\ UNCHANGED outsideCapture

\* One iteration of the CREATE TEMP TABLE loop.
CreateTempTable ==
    /\ capPc = "createTemp"
    /\ \/ /\ CaptureReturnError
          /\ UNCHANGED <<txTemps, capIdx>>
       \/ /\ txTemps' = txTemps \cup {capTables[capIdx]}
          /\ capIdx' = IF capIdx = Len(capTables) THEN 1 ELSE capIdx + 1
          /\ capPc' = IF capIdx = Len(capTables) THEN "script" ELSE "createTemp"
          /\ UNCHANGED <<capTxOpen, capRet, srcTemps, srcWrote>>
    /\ UNCHANGED <<capTables, noColumns, scriptFile, staging, txWrote, outputDir, writes>>
    /\ UNCHANGED outsideCapture

\* Read the population script and execute it in the transaction: it fills
\* the staging tables and may write to real tables.
RunScript ==
    /\ capPc = "script"
    /\ LET next == IF capTables = <<>> THEN "commit" ELSE "export"
       IN  \/ /\ \E kind \in {"unset", "missing"} :         \* no script: go on
                    ScriptOptional(kind) /\ scriptFile' = kind
              /\ capPc' = next
              /\ UNCHANGED <<staging, txWrote, capTxOpen, capRet, srcTemps, srcWrote>>
           \/ /\ \E kind \in {"missing", "unreadable"} :    \* os.ReadFile fails
                    ~ScriptOptional(kind) /\ scriptFile' = kind
              /\ CaptureReturnError
              /\ UNCHANGED <<staging, txWrote>>
           \/ /\ scriptFile' = "failed"                   \* tx.ExecContext fails
              /\ CaptureReturnError
              /\ UNCHANGED <<staging, txWrote>>
           \/ /\ scriptFile' = "present"
              /\ staging' \in [Range(capTables) -> 0..MaxRows]
              /\ txWrote' \in BOOLEAN
              /\ capPc' = next
              /\ UNCHANGED <<capTxOpen, capRet, srcTemps, srcWrote>>
    /\ UNCHANGED <<capTables, noColumns, capIdx, txTemps, outputDir, writes>>
    /\ UNCHANGED outsideCapture

\* exportTableToSQL for the next table of the list.
ExportTable ==
    /\ capPc = "export"
    /\ LET t == capTables[capIdx]
           next == IF capIdx = Len(capTables) THEN "commit" ELSE "export"
       IN  \/ /\ CaptureReturnError       \* column info, row query, scan or write fails
              /\ UNCHANGED <<outputDir, writes, capIdx>>
           \/ /\ SkipsTable(t)
              /\ capIdx' = capIdx + 1
              /\ capPc' = next
              /\ UNCHANGED <<outputDir, writes, capTxOpen, capRet, srcTemps, srcWrote>>
           \/ /\ ~SkipsTable(t)
              /\ outputDir' = (t :> ArtifactFile(t, staging[t])) @@ outputDir
              /\ writes' = Append(writes, t)
              /\ capIdx' = capIdx + 1
              /\ capPc' = next
              /\ UNCHANGED <<capTxOpen, capRet, srcTemps, srcWrote>>
    /\ UNCHANGED <<capTables, noColumns, scriptFile, txTemps, staging, txWrote>>
    /\ UNCHANGED outsideCapture

\* tx.Commit() at the end of extractSeedData.
CaptureCommit ==
    /\ capPc = "commit"
    /\ \/ CaptureReturnError
       \/ /\ srcTemps' = txTemps
          /\ srcWrote' = txWrote
          /\ capTxOpen' = FALSE
          /\ capRet' = "ok"
          /\ capPc' = "done"
    /\ UNCHANGED <<capTables, noColumns, capIdx, scriptFile, txTemps, staging, txWrote,
                   outputDir, writes>>
    /\ UNCHANGED outsideCapture

CaptureNext ==
    \/ CaptureBegin
    \/ CreateTempTable
    \/ RunScript
    \/ ExportTable
    \/ CaptureCommit

\* extractSeedData on the tables getTables lists (ordered by schema and
\* name), some of which may show no columns.
CaptureInit ==
    /\ \E S \in SUBSET AllTables : capTables = SortedList(S)
    /\ noColumns \in SUBSET Range(capTables)
    /\ capPc = "begin"
    /\ capIdx = 0
    /\ capTxOpen = FALSE
    /\ scriptFile = "unread"
    /\ txTemps = {}
    /\ staging = [t \in Range(capTables) |-> 0]
    /\ txWrote = FALSE
    /\ srcTemps = {}
    /\ srcWrote = FALSE
    /\ outputDir = <<>>
    /\ writes = <<>>
    /\ capRet = "running"
    /\ ApplyIdle
    /\ DumpIdle
    /\ FlattenIdle
    /\ QuoteIdle
    /\ CreateIdle

SpecCapture == CaptureInit /\ [][CaptureNext]_vars

(***************************************************************************)
(* pgconn.DumpSchema                                                       *)
(***************************************************************************)
\* The tables a catalog may hold, all of schema public, as ORDER BY
\* schemaname, tablename lists them.
CatalogTableNames == <<"goose_db_version", "goose_jobs", "orders", "users">>

TableRank(n) ==
    IF n \in Range(CatalogTableNames)
    THEN CHOOSE i \in DOMAIN CatalogTableNames : CatalogTableNames[i] = n
    ELSE 0

\* tablename LIKE 'goose_%'.
LikeGoose(n) == n \in {"goose_db_version", "goose_jobs"}

\* fullName := schema + "." + tableName.
FullName(n) == "public" \o "." \o n

\* A schema object; table and ref are "" where the kind has none.
Object(kind, table, ref) == [kind |-> kind, table |-> table, ref |-> ref]

\* Kinds of the objects that stand alone: no table is named by them.
PlainKinds ==
    {"schema", "extension", "enum", "domain", "composite", "sequence",
     "function-early", "function-late", "view"}

\* Kinds of the statements attached to one table.
OnTableKinds == {"primary-key", "unique", "check", "index", "trigger"}

CatalogUniverse ==
    {Object(k, "", "") : k \in PlainKinds}
        \cup {Object("table", t, "") : t \in Range(CatalogTableNames)}
        \cup {Object(k, t, "") : k \in OnTableKinds, t \in Range(CatalogTableNames)}
        \cup {Object("foreign-key", t, r) :
                t \in Range(CatalogTableNames), r \in Range(CatalogTableNames)}

TablesOf(cat) == {o.table : o \in {x \in cat : x.kind = "table"}}

\* A constraint, index or trigger exists only on tables that exist.
ConsistentCatalog(cat) ==
    \A o \in cat :
        /\ (o.kind \in OnTableKinds \cup {"foreign-key"}) => o.table \in TablesOf(cat)
        /\ (o.kind = "foreign-key") => o.ref \in TablesOf(cat)

\* excludeSet[fullName] || excludeSet[tableName].
Excluded(excl, n) == FullName(n) \in excl \/ n \in excl

\* A plausible slip: foreign keys are dumped before the tables.
PhaseOrderForeignKeysEarly ==
    <<"schema", "extension", "enum", "domain", "composite", "sequence",
      "function-early", "foreign-key", "table", "function-late", "view",
      "primary-key", "unique", "check", "index", "trigger">>

\* The phases of DumpSchema, in the order of its body.
PhaseOrder ==
    <<"schema", "extension", "enum", "domain", "composite", "sequence",
      "function-early", "table", "function-late", "view", "primary-key",
      "unique", "check", "foreign-key", "index", "trigger">>

\* The comment line that opens the section of a phase.
HeaderText(kind) ==
    CASE kind = "schema" -> "-- Schemas"
      [] kind = "extension" -> "-- Extensions"
      [] kind = "enum" -> "-- Enum types"
      [] kind = "domain" -> "-- Domain types"
      [] kind = "composite" -> "-- Composite types"
      [] kind = "sequence" -> "-- Sequences"
      [] kind = "function-early" -> "-- Functions (PL/pgSQL)"
      [] kind = "table" -> "-- Tables"
      [] kind = "function-late" -> "-- Functions (SQL)"
      [] kind = "view" -> "-- Views"
      [] kind = "primary-key" -> "-- Primary keys"
      [] kind = "unique" -> "-- Unique constraints"
      [] kind = "check" -> "-- Check constraints"
      [] kind = "foreign-key" -> "-- Foreign keys"
      [] kind = "index" -> "-- Indexes"
      [] kind = "trigger" -> "-- Triggers"

Header(kind) == Object("header", HeaderText(kind), "")
Blank == Object("blank", "", "")

\* The objects a phase emits a statement for: dumpTables drops the goose_%
\* tables, the excluded tables and the tables without columns; the
\* constraint, index and trigger phases drop the statements of excluded
\* tables; the other phases emit every object of their kind.
Emitted(kind, cat, noCols, excl) ==
    IF kind = "table"
    THEN {o \in cat : /\ o.kind = "table"
                      /\ ~LikeGoose(o.table)
                      /\ ~Excluded(excl, o.table)
                      /\ o.table \notin noCols}
    ELSE IF kind \in OnTableKinds \cup {"foreign-key"}
    THEN {o \in cat : o.kind = kind /\ ~Excluded(excl, o.table)}
    ELSE {o \in cat : o.kind = kind}

\* ORDER BY schema, table, name.
SortKey(o) == TableRank(o.table) * (Len(CatalogTableNames) + 1) + TableRank(o.ref)

RECURSIVE SortObjects(_)
SortObjects(S) ==
    IF S = {} THEN <<>>
    ELSE LET first == CHOOSE o \in S : \A q \in S : SortKey(o) <= SortKey(q)
         IN  <<first>> \o SortObjects(S \ {first})

\* The lines a phase appends to parts: nothing when it has no statement.
SectionLines(kind, cat, noCols, excl) ==
    LET stmts == SortObjects(Emitted(kind, cat, noCols, excl))
    IN  IF stmts = <<>> THEN <<>> ELSE <<Header(kind)>> \o stmts \o <<Blank>>

\* What a failure that is not returned does to the statement of an object:
\* dumpEnums ignores the error of rows.Scan and formats what was scanned;
\* dumpCompositeTypes and dumpTables never read attrRows.Err() and
\* colRows.Err(), so the statement is built from the rows seen so far, or
\* left out when none was seen.
UnreturnedFailure(kind) ==
    CASE kind = "enum" -> {"incomplete"}
      [] kind = "composite" -> {"incomplete", "omitted"}
      [] kind = "table" -> {"incomplete", "omitted"}
      [] OTHER -> {}

\* The statement built from incomplete rows.
Incomplete(o) == [kind |-> o.kind, table |-> o.table, ref |-> "incomplete"]

\* The section of a phase in which the sub-query or scan of object o failed
\* without being returned.
SectionLinesAfterFailure(kind, cat, noCols, excl, o, outcome) ==
    LET all == SortObjects(Emitted(kind, cat, noCols, excl))
        stmts == IF outcome = "omitted"
                 THEN SelectSeq(all, LAMBDA x : x # o)
                 ELSE [i \in DOMAIN all |-> IF all[i] = o THEN Incomplete(o) ELSE all[i]]
    IN  IF stmts = <<>> THEN <<>> ELSE <<Header(kind)>> \o stmts \o <<Blank>>

\* The next phase of DumpSchema: its catalog query fails and DumpSchema
\* returns "" with the error; or its section is appended; or a failure
\* inside the phase is not returned and the section is appended as far as it
\* was built.  After the last phase the joined parts are returned.
DumpPhase ==
    /\ dumpRet = "running"
    /\ phase \in DOMAIN PhaseOrder
    /\ \/ /\ dumpRet' = "err"
          /\ dumpOut' = <<>>
          /\ failedPhases' = failedPhases \cup {PhaseOrder[phase]}
          /\ UNCHANGED <<phase, parts>>
       \/ /\ parts' = parts \o SectionLines(PhaseOrder[phase], catalog, columnless,
                                            excludeTables)
          /\ phase' = phase + 1
          /\ IF phase = Len(PhaseOrder)
             THEN dumpRet' = "ok" /\ dumpOut' = parts'
             ELSE UNCHANGED <<dumpRet, dumpOut>>
          /\ UNCHANGED failedPhases
       \/ /\ \E o \in Emitted(PhaseOrder[phase], catalog, columnless, excludeTables),
                outcome \in UnreturnedFailure(PhaseOrder[phase]) :
                parts' = parts \o SectionLinesAfterFailure(PhaseOrder[phase], catalog,
                                        columnless, excludeTables, o, outcome)
          /\ failedPhases' = failedPhases \cup {PhaseOrder[phase]}
          /\ phase' = phase + 1
          /\ IF phase = Len(PhaseOrder)
             THEN dumpRet' = "ok" /\ dumpOut' = parts'
             ELSE UNCHANGED <<dumpRet, dumpOut>>
    /\ UNCHANGED <<catalog, columnless, excludeTables>>
    /\ UNCHANGED outsideDump

\* The exclusion list Flattener.dumpSchema passes.
FlattenExcludeTables == {"goose_db_version", "public.goose_db_version"}

\* The exclusion lists DumpSchema is called with here.
ExcludeChoices ==
    {{}, FlattenExcludeTables, FlattenExcludeTables \cup {"users"},
     FlattenExcludeTables \cup {"public.orders"}}

DumpNext == DumpPhase

\* DumpSchema on any consistent catalog and any of the exclusion lists.
DumpInit ==
    /\ catalog \in {c \in SubsetsUpTo(CatalogUniverse, MaxObjects) : ConsistentCatalog(c)}
    /\ columnless \in SubsetsUpTo(TablesOf(catalog), 1)
    /\ excludeTables \in ExcludeChoices
    /\ phase = 1
    /\ parts = <<>>
    /\ dumpOut = <<>>
    /\ dumpRet = "running"
    /\ failedPhases = {}
    /\ ApplyIdle
    /\ CaptureIdle
    /\ FlattenIdle
    /\ QuoteIdle
    /\ CreateIdle

SpecDump == DumpInit /\ [][DumpNext]_vars

(***************************************************************************)
(* migrate.Flattener                                                       *)
(***************************************************************************)
\* A migration file <version>_<name>.sql: the version is written as the
\* decimal text the ledger scan yields, as Migrator.Create names files.
MigrationFile(version, name) == [version |-> version, name |-> name]

MigrationFiles ==
    {MigrationFile(v, n) : v \in 1..MaxVersion, n \in {"add", "initial"}}

\* filepath.Glob(version + "_*.sql"): the files of that version.
GlobVersion(dir, version) == {f \in DOMAIN dir : f.version = version}

Directive(text) == Object("directive", text, "")

\* The content of a file Flatten did not write.
OriginalContent(f) == <<Directive("-- +goose Up"), Object("original", f.name, "")>>

\* The buffer writeInitialMigration builds.
InitialMigration(ddl) ==
    <<Directive("-- +goose Up"), Directive("-- +goose StatementBegin")>>
        \o ddl \o <<Directive("-- +goose StatementEnd")>>

\* A plausible slip: the baseline is stamped with the first applied version.
FirstVersion(vs) == vs[1]

\* latestVersion := versions[len(versions)-1].
LatestVersion(vs) == vs[Len(vs)]

\* The files the delete loop still has to remove: version by version, the
\* matches of one version in the order Glob returns them.
RECURSIVE FilesOf(_, _)
FilesOf(dir, vs) ==
    IF vs = <<>> THEN <<>>
    ELSE LET here == GlobVersion(dir, Head(vs))
             byName == SortObjects({Object("file", "", f.name) : f \in here})
         IN  [i \in DOMAIN byName |-> MigrationFile(Head(vs), byName[i].ref)]
                 \o FilesOf(dir, Tail(vs))

\* The directory without file f.
RemoveFrom(dir, f) == [g \in DOMAIN dir \ {f} |-> dir[g]]

\* What getAppliedVersions returns without an error: nothing when the ledger
\* table does not exist, else the applied versions in ascending order.
AppliedVersions(exists, rows) == IF exists THEN SortedList(rows) ELSE <<>>

SkipsNothing(vs) == FALSE

\* Flatten's test len(versions) == 0, on which it returns nil at once.
SkipsFlatten(vs) == Len(vs) = 0

\* Flatten up to the call of dumpSchema: getAppliedVersions fails; or no
\* version is applied and Flatten does nothing; or DumpSchema is called with
\* the ledger table excluded.
GetAppliedVersions ==
    /\ flatPc = "getAppliedVersions"
    /\ \/ /\ flatRet' = "err"
          /\ flatPc' = "done"
          /\ UNCHANGED <<versions, phase, excludeTables>>
       \/ /\ SkipsFlatten(AppliedVersions(ledgerExists, appliedRows))
          /\ flatRet' = "ok"
          /\ flatPc' = "done"
          /\ UNCHANGED <<versions, phase, excludeTables>>
       \/ /\ ~SkipsFlatten(AppliedVersions(ledgerExists, appliedRows))
          /\ versions' = AppliedVersions(ledgerExists, appliedRows)
          /\ phase' = 1
          /\ excludeTables' = FlattenExcludeTables
          /\ flatPc' = "dumpSchema"
          /\ UNCHANGED flatRet
    /\ UNCHANGED <<ledgerExists, appliedRows, migrationsDir, dirAtStart, schema>>
    /\ UNCHANGED <<catalog, columnless, parts, dumpOut, dumpRet, failedPhases>>
    /\ UNCHANGED outsideFlatten

\* dumpSchema returns: its error ends Flatten, its text becomes schema.
DumpSchemaReturns ==
    /\ flatPc = "dumpSchema"
    /\ dumpRet # "running"
    /\ \/ /\ dumpRet = "err"
          /\ flatRet' = "err"
          /\ flatPc' = "done"
          /\ UNCHANGED schema
       \/ /\ dumpRet = "ok"
          /\ schema' = dumpOut
          /\ flatPc' = "remove"
          /\ UNCHANGED flatRet
    /\ UNCHANGED <<ledgerExists, appliedRows, migrationsDir, dirAtStart, versions>>
    /\ UNCHANGED dumpVars
    /\ UNCHANGED outsideFlatten

\* One os.Remove of the delete loop: it fails and Flatten returns, or the
\* file is gone.
RemoveMigration ==
    /\ flatPc = "remove"
    /\ FilesOf(migrationsDir, versions) # <<>>
    /\ LET match == Head(FilesOf(migrationsDir, versions))
       IN  \/ /\ flatRet' = "err"
              /\ flatPc' = "done"
              /\ UNCHANGED migrationsDir
           \/ /\ migrationsDir' = RemoveFrom(migrationsDir, match)
              /\ UNCHANGED <<flatRet, flatPc>>
    /\ UNCHANGED <<ledgerExists, appliedRows, dirAtStart, versions, schema>>
    /\ UNCHANGED dumpVars
    /\ UNCHANGED outsideFlatten

\* After the delete loop, writeInitialMigration: os.WriteFile cannot create
\* the file; or it fails having written part of the buffer; or the file is
\* written and Flatten returns nil.
WriteInitialMigration ==
    /\ flatPc = "remove"
    /\ FilesOf(migrationsDir, versions) = <<>>
    /\ LET initialPath == MigrationFile(LatestVersion(versions), "initial")
           buf == InitialMigration(schema)
       IN  \/ /\ flatRet' = "err"
              /\ UNCHANGED migrationsDir
           \/ /\ flatRet' = "err"
              /\ \E n \in 0..(Len(buf) - 1) :
                    migrationsDir' = (initialPath :> SubSeq(buf, 1, n)) @@ migrationsDir
           \/ /\ flatRet' = "ok"
              /\ migrationsDir' = (initialPath :> buf) @@ migrationsDir
    /\ flatPc' = "done"
    /\ UNCHANGED <<ledgerExists, appliedRows, dirAtStart, versions, schema>>
    /\ UNCHANGED dumpVars
    /\ UNCHANGED outsideFlatten

FlattenNext ==
    \/ GetAppliedVersions
    \/ DumpPhase
    \/ DumpSchemaReturns
    \/ RemoveMigration
    \/ WriteInitialMigration

\* The ledger table with its primary key, as the migration runner creates it.
LedgerObjects ==
    {Object("table", "goose_db_version", ""),
     Object("primary-key", "goose_db_version", "")}

\* The application schemas Flatten is run on here.
ApplicationSchemas ==
    {{},
     {Object("table", "users", "")},
     {Object("table", "users", ""), Object("primary-key", "users", "")}}

\* Flatten on any directory of up to MaxFiles migration files and any ledger.
FlattenInit ==
    /\ ledgerExists \in BOOLEAN
    /\ appliedRows \in (IF ledgerExists THEN SUBSET (0..MaxVersion) ELSE {{}})
    /\ \E files \in SubsetsUpTo(MigrationFiles, MaxFiles) :
          migrationsDir = [f \in files |-> OriginalContent(f)]
    /\ dirAtStart = migrationsDir
    /\ versions = <<>>
    /\ schema = <<>>
    /\ flatPc = "getAppliedVersions"
    /\ flatRet = "running"
    /\ \E app \in ApplicationSchemas :
          catalog = app \cup (IF ledgerExists THEN LedgerObjects ELSE {})
    /\ columnless = {}
    /\ excludeTables = {}
    /\ phase = 0
    /\ parts = <<>>
    /\ dumpOut = <<>>
    /\ dumpRet = "running"
    /\ failedPhases = {}
    /\ ApplyIdle
    /\ CaptureIdle
    /\ QuoteIdle
    /\ CreateIdle

SpecFlatten == FlattenInit /\ [][FlattenNext]_vars

(***************************************************************************)
(* seedup.SeedCreate and Seeder.Create                                     *)
(***************************************************************************)
\* The content of a seed file an earlier run left.
OldContent(f) ==
    [marker |-> FALSE, inserts |-> 0,
     lines |-> <<[stmt |-> "old", table |-> f.base, row |-> 0]>>]

\* The first k lines of a file: what a failed os.WriteFile may leave.
PartialFile(data, k) ==
    [marker |-> data.marker /\ k > 0,
     inserts |-> IF data.inserts < k THEN data.inserts ELSE k,
     lines |-> SubSeq(data.lines, 1, k)]

\* filepath.Glob(seedDir/*.csv) and filepath.Glob(seedDir/*.sql).
OldSeedFiles(dir) == {f \in DOMAIN dir : f.ext \in {"csv", "sql"}}

\* filepath.Glob(tempDir/*.sql): the artifacts in name order.
NewSQLs(dir) == SortedList(DOMAIN dir)

DryRunIgnored(opt) == FALSE

\* if opts.DryRun: Create returns before it modifies any file, and
\* SeedCreate does not flatten.
DryRunSet(opt) == opt

\* The capture variables Create leaves alone between its calls.
captureLocals == <<capTables, noColumns, capPc, capIdx, capTxOpen, scriptFile, txTemps,
                   staging, txWrote, srcWrote, writes, capRet>>

\* Create returns r to SeedCreate: defer os.RemoveAll(tempDir) removes the
\* artifacts of tempDir and defer db.Close() ends the session and with it
\* its temporary tables.
CreateReturns(r) ==
    /\ outputDir' = <<>>
    /\ srcTemps' = {}
    /\ IF r = "ok"
       THEN createPc' = "returned" /\ UNCHANGED createRet
       ELSE createPc' = "done" /\ createRet' = "err"

\* f.Flatten(ctx, migrationsDir) is called.
EnterFlatten ==
    /\ flatPc' = "getAppliedVersions"
    /\ flatRet' = "running"
    /\ dirAtStart' = migrationsDir
    /\ versions' = <<>>
    /\ schema' = <<>>
    /\ phase' = 0
    /\ parts' = <<>>
    /\ dumpOut' = <<>>
    /\ dumpRet' = "running"
    /\ failedPhases' = {}
    /\ excludeTables' = {}
    /\ flattenCalls' = flattenCalls + 1
    /\ UNCHANGED <<ledgerExists, appliedRows, migrationsDir, catalog, columnless>>

\* Create up to the call of extractSeedData: os.MkdirAll fails; or the
\* directory exists now and pgconn.Open, getTables or os.MkdirTemp fails; or
\* extractSeedData is called.
CreateStart ==
    /\ createPc = "start"
    /\ \/ /\ ~seedDirExists
          /\ createRet' = "err"
          /\ createPc' = "done"
          /\ UNCHANGED <<seedDirExists, capPc>>
       \/ /\ seedDirExists' = TRUE
          /\ createRet' = "err"
          /\ createPc' = "done"
          /\ UNCHANGED capPc
       \/ /\ seedDirExists' = TRUE
          /\ capPc' = "begin"
          /\ createPc' = "extract"
          /\ UNCHANGED createRet
    /\ UNCHANGED <<dryRun, noFlatten, seedFiles, seedAtStart, copyIdx, flattenCalls>>
    /\ UNCHANGED <<capTables, noColumns, capIdx, capTxOpen, scriptFile, txTemps, staging,
                   txWrote, srcTemps, srcWrote, outputDir, writes, capRet>>
    /\ UNCHANGED <<dumpVars, flattenVars>>
    /\ UNCHANGED outsideCreate

\* extractSeedData returns: its error ends Create; with DryRun Create
\* returns nil; else Flatten is called.
ExtractReturns ==
    /\ createPc = "extract"
    /\ capPc = "done"
    /\ \/ /\ capRet = "err"
          /\ CreateReturns("err")
          /\ UNCHANGED <<dumpVars, flattenVars, flattenCalls>>
       \/ /\ capRet = "ok"
          /\ DryRunSet(dryRun)
          /\ CreateReturns("ok")
          /\ UNCHANGED <<dumpVars, flattenVars, flattenCalls>>
       \/ /\ capRet = "ok"
          /\ ~DryRunSet(dryRun)
          /\ EnterFlatten
          /\ createPc' = "flatten"
          /\ UNCHANGED <<createRet, outputDir, srcTemps>>
    /\ UNCHANGED <<dryRun, noFlatten, seedDirExists, seedFiles, seedAtStart, copyIdx>>
    /\ UNCHANGED captureLocals
    /\ UNCHANGED outsideCreate

\* Flatten returns to Create: its error ends Create, else the cleaning of
\* the seed directory begins.
FlattenReturnsToCreate ==
    /\ createPc = "flatten"
    /\ flatPc = "done"
    /\ \/ /\ flatRet = "err"
          /\ CreateReturns("err")
       \/ /\ flatRet = "ok"
          /\ createPc' = "clean"
          /\ UNCHANGED <<createRet, outputDir, srcTemps>>
    /\ UNCHANGED <<dryRun, noFlatten, seedDirExists, seedFiles, seedAtStart, copyIdx,
                   flattenCalls>>
    /\ UNCHANGED captureLocals
    /\ UNCHANGED <<dumpVars, flattenVars>>
    /\ UNCHANGED outsideCreate

\* The two loops over oldCSVs and oldSQLs: os.Remove on every match, its
\* error ignored, so any of the matches may stay.
CleanOldSeedFiles ==
    /\ createPc = "clean"
    /\ \E removed \in SUBSET OldSeedFiles(seedFiles) :
          seedFiles' = [f \in DOMAIN seedFiles \ removed |-> seedFiles[f]]
    /\ copyIdx' = 1
    /\ createPc' = "copy"
    /\ UNCHANGED <<dryRun, noFlatten, createRet, seedDirExists, seedAtStart, flattenCalls>>
    /\ UNCHANGED captureVars
    /\ UNCHANGED <<dumpVars, flattenVars>>
    /\ UNCHANGED outsideCreate

\* One iteration of the loop over newSQLs: os.ReadFile fails; os.WriteFile
\* fails, leaving the destination as it was or with a part of the data;
\* or the artifact is copied.  After the last one Create returns nil.
CopyNewSeedFile ==
    /\ createPc = "copy"
    /\ IF copyIdx > Len(NewSQLs(outputDir))
       THEN /\ CreateReturns("ok")
            /\ UNCHANGED <<seedFiles, copyIdx>>
       ELSE LET t == NewSQLs(outputDir)[copyIdx]
                dest == SeedFile(t, "sql")
                data == outputDir[t]
            IN  \/ /\ CreateReturns("err")
                   /\ UNCHANGED <<seedFiles, copyIdx>>
                \/ /\ CreateReturns("err")
                   /\ \E k \in 0..(Len(data.lines) - 1) :
                         seedFiles' = (dest :> PartialFile(data, k)) @@ seedFiles
                   /\ UNCHANGED copyIdx
                \/ /\ seedFiles' = (dest :> data) @@ seedFiles
                   /\ copyIdx' = copyIdx + 1
                   /\ UNCHANGED <<createPc, createRet, outputDir, srcTemps>>
    /\ UNCHANGED <<dryRun, noFlatten, seedDirExists, seedAtStart, flattenCalls>>
    /\ UNCHANGED captureLocals
    /\ UNCHANGED <<dumpVars, flattenVars>>
    /\ UNCHANGED outsideCreate

\* SeedCreate after Create returned nil: unless NoFlatten or DryRun is set
\* it flattens (an empty MigrationsDir or a failing pgconn.Open is an
\* error); else it returns nil.
SeedCreateFlatten ==
    /\ createPc = "returned"
    /\ \/ /\ ~noFlatten /\ ~DryRunSet(dryRun)
          /\ createRet' = "err"
          /\ createPc' = "done"
          /\ UNCHANGED <<dumpVars, flattenVars, flattenCalls>>
       \/ /\ ~noFlatten /\ ~DryRunSet(dryRun)
          /\ EnterFlatten
          /\ createPc' = "flattenAgain"
          /\ UNCHANGED createRet
       \/ /\ noFlatten \/ DryRunSet(dryRun)
          /\ createRet' = "ok"
          /\ createPc' = "done"
          /\ UNCHANGED <<dumpVars, flattenVars, flattenCalls>>
    /\ UNCHANGED <<dryRun, noFlatten, seedDirExists, seedFiles, seedAtStart, copyIdx>>
    /\ UNCHANGED captureVars
    /\ UNCHANGED outsideCreate

\* Flatten returns to SeedCreate, which returns its error or nil.
FlattenReturnsToSeedCreate ==
    /\ createPc = "flattenAgain"
    /\ flatPc = "done"
    /\ createRet' = flatRet
    /\ createPc' = "done"
    /\ UNCHANGED <<dryRun, noFlatten, seedDirExists, seedFiles, seedAtStart, copyIdx,
                   flattenCalls>>
    /\ UNCHANGED captureVars
    /\ UNCHANGED <<dumpVars, flattenVars>>
    /\ UNCHANGED outsideCreate

CreateNext ==
    \/ CreateStart
    \/ CaptureBegin
    \/ CreateTempTable
    \/ RunScript
    \/ ExportTable
    \/ CaptureCommit
    \/ ExtractReturns
    \/ GetAppliedVersions
    \/ DumpPhase
    \/ DumpSchemaReturns
    \/ RemoveMigration
    \/ WriteInitialMigration
    \/ FlattenReturnsToCreate
    \/ CleanOldSeedFiles
    \/ CopyNewSeedFile
    \/ SeedCreateFlatten
    \/ FlattenReturnsToSeedCreate

\* The seed directories SeedCreate is run on here: none yet, an empty one,
\* and one with the artifact of a table, a legacy CSV file and the
\* population script.
SeedDirectories ==
    {<<>>,
     [f \in {SeedFile(1, "sql"), SeedFile(1, "csv"), SeedFile(0, "md")} |->
         OldContent(f)]}

\* SeedCreate with any options on a database of at most one table, whose
\* ledger holds at most one applied version, and a migrations directory of
\* at most one file.
CreateInit ==
    /\ dryRun \in BOOLEAN
    /\ noFlatten \in BOOLEAN
    /\ createPc = "start"
    /\ createRet = "running"
    /\ seedFiles \in SeedDirectories
    /\ seedDirExists \in (IF seedFiles = <<>> THEN BOOLEAN ELSE {TRUE})
    /\ seedAtStart = seedFiles
    /\ copyIdx = 0
    /\ flattenCalls = 0
    /\ \E S \in SubsetsUpTo(AllTables, 1) : capTables = SortedList(S)
    /\ noColumns \in SUBSET Range(capTables)
    /\ capPc = "idle"
    /\ capIdx = 0
    /\ capTxOpen = FALSE
    /\ scriptFile = "unread"
    /\ txTemps = {}
    /\ staging = [t \in Range(capTables) |-> 0]
    /\ txWrote = FALSE
    /\ srcTemps = {}
    /\ srcWrote = FALSE
    /\ outputDir = <<>>
    /\ writes = <<>>
    /\ capRet = "running"
    /\ ledgerExists \in BOOLEAN
    /\ appliedRows \in (IF ledgerExists THEN SubsetsUpTo(1..MaxVersion, 1) ELSE {{}})
    /\ \E files \in SubsetsUpTo({MigrationFile(v, "add") : v \in 1..MaxVersion}, 1) :
          migrationsDir = [f \in files |-> OriginalContent(f)]
    /\ dirAtStart = migrationsDir
    /\ versions = <<>>
    /\ schema = <<>>
    /\ flatPc = "idle"
    /\ flatRet = "running"
    /\ catalog = {Object("table", "users", "")}
                     \cup (IF ledgerExists THEN LedgerObjects ELSE {})
    /\ columnless = {}
    /\ excludeTables = {}
    /\ phase = 0
    /\ parts = <<>>
    /\ dumpOut = <<>>
    /\ dumpRet = "running"
    /\ failedPhases = {}
    /\ ApplyIdle
    /\ QuoteIdle

SpecCreate == CreateInit /\ [][CreateNext]_vars

(***************************************************************************)
(* Seeder.Create followed by Seeder.loadSeedData on the same directory     *)
(***************************************************************************)
\* The copy loop of Create after a successful capture into an empty seed
\* directory, every write succeeding: each artifact of tempDir is in the
\* seed directory under its name, tempDir is removed, and loadSeedData is
\* then called on the seed directory.
PublishArtifacts ==
    /\ capPc = "done"
    /\ capRet = "ok"
    /\ pc = "idle"
    /\ seedFiles' = [f \in {SeedFile(t, "sql") : t \in DOMAIN outputDir} |->
                        outputDir[f.base]]
    /\ seedDirExists' = TRUE
    /\ seedDir' = DOMAIN outputDir
    /\ outputDir' = <<>>
    /\ pc' = "loadSeedData"
    /\ UNCHANGED <<dryRun, noFlatten, createPc, createRet, seedAtStart, copyIdx,
                   flattenCalls>>
    /\ UNCHANGED <<capTables, noColumns, capPc, capIdx, capTxOpen, scriptFile, txTemps,
                   staging, txWrote, srcTemps, srcWrote, writes, capRet>>
    /\ UNCHANGED orderVars
    /\ UNCHANGED <<fks, dbData, artifactKind, idx, txOpen, txData, txLog, csvFiles, ret>>
    /\ UNCHANGED <<dumpVars, flattenVars, quoteVars, applyVars>>

RoundTripNext ==
    \/ CaptureBegin
    \/ CreateTempTable
    \/ RunScript
    \/ ExportTable
    \/ CaptureCommit
    \/ PublishArtifacts
    \/ FindSQLFiles
    \/ GetImportOrder
    \/ PopQueue
    \/ VisitOther
    \/ AppendRemaining
    \/ BeginTx
    \/ Truncate
    \/ LoadArtifact
    \/ Commit

\* Capture on any list of tables, then replay of what it wrote, over a
\* catalog of at most one foreign key.
RoundTripInit ==
    /\ \E S \in SUBSET AllTables : capTables = SortedList(S)
    /\ noColumns \in SUBSET Range(capTables)
    /\ capPc = "begin"
    /\ capIdx = 0
    /\ capTxOpen = FALSE
    /\ scriptFile = "unread"
    /\ txTemps = {}
    /\ staging = [t \in Range(capTables) |-> 0]
    /\ txWrote = FALSE
    /\ srcTemps = {}
    /\ srcWrote = FALSE
    /\ outputDir = <<>>
    /\ writes = <<>>
    /\ capRet = "running"
    /\ ApplyIdle
    /\ DumpIdle
    /\ FlattenIdle
    /\ QuoteIdle
    /\ CreateIdle

SpecRoundTrip == RoundTripInit /\ [][RoundTripNext]_vars

(***************************************************************************)
(* pgconn.QuoteString                                                      *)
(***************************************************************************)
\* The characters of the strings quoted here: a letter, the letter n, the
\* single quote and the backslash.
Alphabet == {"a", "n", "'", "\\"}

\* The strings of at most n characters, as sequences of characters.
Strings(n) == UNION {[1..k -> Alphabet] : k \in 0..n}

\* strings.Contains(s, c) for a character c.
Contains(s, c) == \E i \in DOMAIN s : s[i] = c

\* strings.ReplaceAll(s, old, new) for a character old.
RECURSIVE ReplaceAll(_, _, _)
ReplaceAll(s, old, new) ==
    IF s = <<>> THEN <<>>
    ELSE (IF Head(s) = old THEN new ELSE <<Head(s)>>) \o ReplaceAll(Tail(s), old, new)

\* A plausible slip: the literal is never given the E prefix.
QuoteStringPlain(s) == <<"'">> \o ReplaceAll(s, "'", <<"'", "'">>) \o <<"'">>

\* QuoteString: single quotes are doubled; the literal is E'...' when s
\* holds a backslash and '...' otherwise.
QuoteString(s) ==
    LET needsEscape == Contains(s, "\\")
        escaped == ReplaceAll(s, "'", <<"'", "'">>)
    IN  IF needsEscape
        THEN <<"E", "'">> \o escaped \o <<"'">>
        ELSE <<"'">> \o escaped \o <<"'">>

\* One call of QuoteString.
CallQuoteString ==
    /\ qPc = "call"
    /\ qLiteral' = QuoteString(qInput)
    /\ qPc' = "returned"
    /\ UNCHANGED <<qInput, qTag, value, pgType, column, generatedExpr, colDef>>
    /\ UNCHANGED outsideQuote

QuoteNext == CallQuoteString

\* QuoteString on any string of at most MaxStrLen characters.
QuoteInit ==
    /\ qInput \in Strings(MaxStrLen)
    /\ qLiteral = <<>>
    /\ qPc = "call"
    /\ qTag = <<>>
    /\ value = Nil
    /\ pgType = ""
    /\ ColumnIdle
    /\ ApplyIdle
    /\ CaptureIdle
    /\ DumpIdle
    /\ FlattenIdle
    /\ CreateIdle

SpecQuote == QuoteInit /\ [][QuoteNext]_vars

(***************************************************************************)
(* pgconn.quoteDollar                                                      *)
(***************************************************************************)
\* The characters of the payloads quoted here.
DollarAlphabet == {"a", "q", "$", "\""}

DollarStrings(n) == UNION {[1..k -> DollarAlphabet] : k \in 0..n}

\* strings.Contains(s, sub) for a string sub.
ContainsString(s, sub) ==
    \E i \in 1..(Len(s) - Len(sub) + 1) : SubSeq(s, i, i + Len(sub) - 1) = sub

\* "$" + tag + "$".
Delimiter(tag) == <<"$">> \o tag \o <<"$">>

\* The loop condition of quoteDollar.
TagCollides(s, tag) == ContainsString(s, Delimiter(tag))

\* One iteration of the loop: tag += "q".
GrowTag ==
    /\ qPc = "callDollar"
    /\ TagCollides(qInput, qTag)
    /\ qTag' = qTag \o <<"q">>
    /\ UNCHANGED <<qInput, qLiteral, qPc, value, pgType, column, generatedExpr, colDef>>
    /\ UNCHANGED outsideQuote

\* The loop ends and the literal is returned.
ReturnDollar ==
    /\ qPc = "callDollar"
    /\ ~TagCollides(qInput, qTag)
    /\ qLiteral' = Delimiter(qTag) \o qInput \o Delimiter(qTag)
    /\ qPc' = "returnedDollar"
    /\ UNCHANGED <<qInput, qTag, value, pgType, column, generatedExpr, colDef>>
    /\ UNCHANGED outsideQuote

DollarNext ==
    \/ GrowTag
    \/ ReturnDollar

\* quoteDollar on any payload of at most MaxStrLen characters.
DollarInit ==
    /\ qInput \in DollarStrings(MaxStrLen)
    /\ qLiteral = <<>>
    /\ qPc = "callDollar"
    /\ qTag = <<"q">>
    /\ value = Nil
    /\ pgType = ""
    /\ ColumnIdle
    /\ ApplyIdle
    /\ CaptureIdle
    /\ DumpIdle
    /\ FlattenIdle
    /\ CreateIdle

SpecDollar == DollarInit /\ [][DollarNext]_vars

(***************************************************************************)
(* pgconn.SerializeValue                                                   *)
(***************************************************************************)
\* The characters of a string constant, as a sequence.
Chars(str) == [i \in 1..Len(str) |-> SubSeq(str, i, i)]

UpperLetters == "ABCDEFGHIJKLMNOPQRSTUVWXYZ"
LowerLetters == "abcdefghijklmnopqrstuvwxyz"

\* The character c with its case changed from the alphabet from to the
\* alphabet to.
MapLetter(c, from, to) ==
    IF \E i \in 1..Len(from) : SubSeq(from, i, i) = c
    THEN LET i == CHOOSE j \in 1..Len(from) : SubSeq(from, j, j) = c
         IN  SubSeq(to, i, i)
    ELSE c

\* strings.ToLower and strings.ToUpper on a type name.
RECURSIVE MapLetters(_, _, _)
MapLetters(str, from, to) ==
    IF Len(str) = 0 THEN ""
    ELSE MapLetter(SubSeq(str, 1, 1), from, to)
             \o MapLetters(SubSeq(str, 2, Len(str)), from, to)

ToLower(str) == MapLetters(str, UpperLetters, LowerLetters)
ToUpper(str) == MapLetters(str, LowerLetters, UpperLetters)

\* strings.HasSuffix and strings.Contains on type names.
HasSuffix(str, suffix) ==
    Len(str) >= Len(suffix)
        /\ SubSeq(str, Len(str) - Len(suffix) + 1, Len(str)) = suffix
ContainsText(str, sub) ==
    \E i \in 1..(Len(str) - Len(sub) + 1) : SubSeq(str, i, i + Len(sub) - 1) = sub

\* The decimal digits of a natural number, and of an integer.
RECURSIVE Digits(_)
Digits(n) ==
    IF n < 10 THEN <<SubSeq("0123456789", n + 1, n + 1)>>
    ELSE Digits(n \div 10) \o <<SubSeq("0123456789", (n % 10) + 1, (n % 10) + 1)>>

FormatInt(n) == IF n < 0 THEN <<"-">> \o Digits(0 - n) ELSE Digits(n)

\* Two digits, zero padded.
Pad2(n) == IF n < 10 THEN <<"0">> \o Digits(n) ELSE Digits(n)

\* A floating-point value is kept as its number of tenths: %v prints the
\* shortest decimal that reads back, without a fraction when there is none.
FormatFloat(tenths) ==
    Digits(tenths \div 10)
        \o (IF tenths % 10 = 0 THEN <<>> ELSE <<".">> \o Digits(tenths % 10))

\* Layout 2006-01-02.
DateText(t) == Digits(t.year) \o <<"-">> \o Pad2(t.month) \o <<"-">> \o Pad2(t.day)

\* Six digits, zero padded, then without the trailing zeros.
RECURSIVE StripZeros(_)
StripZeros(s) ==
    IF s # <<>> /\ s[Len(s)] = "0" THEN StripZeros(SubSeq(s, 1, Len(s) - 1)) ELSE s

Pad6(n) ==
    LET d == Digits(n) IN [i \in 1..(6 - Len(d)) |-> "0"] \o d

\* Layout .999999: the fraction without trailing zeros, nothing when zero.
FractionText(t) == IF t.micro = 0 THEN <<>> ELSE <<".">> \o StripZeros(Pad6(t.micro))

\* Layout 15:04:05.999999.
ClockText(t) ==
    Pad2(t.hour) \o <<":">> \o Pad2(t.min) \o <<":">> \o Pad2(t.sec) \o FractionText(t)

\* Layouts -07:00 and -0700.
OffsetText(t, colon) ==
    LET m == IF t.offset < 0 THEN 0 - t.offset ELSE t.offset
    IN  <<IF t.offset < 0 THEN "-" ELSE "+">> \o Pad2(m \div 60) \o colon \o Pad2(m % 60)

\* t.Format(layout) for the layouts SerializeValue uses, given by the
\* parts the layout holds.
FormatTime(t, date, clock, zone) ==
    (IF date THEN DateText(t) ELSE <<>>)
        \o (IF date /\ clock THEN <<" ">> ELSE <<>>)
        \o (IF clock THEN ClockText(t) ELSE <<>>)
        \o (IF zone THEN OffsetText(t, <<":">>) ELSE <<>>)

\* t.String(), what %v prints for a time.Time: the zone is printed as its
\* offset and its name, which for a zone without a name is the offset again.
TimeString(t) ==
    DateText(t) \o <<" ">> \o ClockText(t) \o <<" ">> \o OffsetText(t, <<>>)
        \o <<" ">> \o (IF t.offset = 0 THEN Chars("UTC") ELSE OffsetText(t, <<>>))

BoolValue(b) == Value("bool", "none", b, 0, <<>>, ZeroTime)
IntValue(n) == Value("int", "none", FALSE, n, <<>>, ZeroTime)
FloatValue(tenths) == Value("float", "none", FALSE, tenths, <<>>, ZeroTime)
StringValue(s) == Value("string", "none", FALSE, 0, s, ZeroTime)
BytesValue(s) == Value("bytes", "none", FALSE, 0, s, ZeroTime)
TimeValue(t) == Value("time", "none", FALSE, 0, <<>>, t)
PointerTo(v) == [v EXCEPT !.kind = "ptr", !.of = v.kind]
NilPointer == Value("ptr", "nilptr", FALSE, 0, <<>>, ZeroTime)

\* *v for a pointer v that is not nil.
Deref(v) == [v EXCEPT !.kind = v.of, !.of = "none"]

\* fmt.Sprintf("%v", value) for a value that is no byte slice.
Sprint(v) ==
    CASE v.kind = "bool" -> IF v.b THEN Chars("true") ELSE Chars("false")
      [] v.kind = "int" -> FormatInt(v.n)
      [] v.kind = "float" -> FormatFloat(v.n)
      [] v.kind = "string" -> v.s
      [] v.kind = "time" -> TimeString(v.t)

\* The two hexadecimal digits %x prints for a byte.
HexOf(c) ==
    CASE c = "a" -> <<"6", "1">>
      [] c = "n" -> <<"6", "e">>
      [] c = "'" -> <<"2", "7">>
      [] c = "\\" -> <<"5", "c">>
      [] c = "." -> <<"2", "e">>
      [] c \in {"0", "1", "2", "3", "4", "5", "6", "7", "8", "9"} -> <<"3", c>>

\* fmt.Sprintf("'\\x%x'", b).
RECURSIVE Hex(_)
Hex(s) == IF s = <<>> THEN <<>> ELSE HexOf(Head(s)) \o Hex(Tail(s))
HexLiteral(s) == <<"'", "\\", "x">> \o Hex(s) \o <<"'">>

\* quoteDollar as a function: the tag grows while the payload holds the
\* delimiter.
RECURSIVE DollarTag(_, _)
DollarTag(s, tag) == IF TagCollides(s, tag) THEN DollarTag(s, tag \o <<"q">>) ELSE tag
QuoteDollar(s) == Delimiter(DollarTag(s, <<"q">>)) \o s \o Delimiter(DollarTag(s, <<"q">>))

\* The time value formatted with the layout, any other value quoted as %v
\* prints it.
Temporal(v, date, clock, zone) ==
    IF v.kind = "time" THEN QuoteString(FormatTime(v.t, date, clock, zone))
    ELSE QuoteString(Sprint(v))

\* The first switch of SerializeValue, for a []byte that is not nil: the
\* prefix bytea is looked for in pgType as given, the suffix [] in its
\* lower-case form.
BytesLiteral(v, ty) ==
    IF HasPrefix(ty, "bytea") THEN HexLiteral(v.s)
    ELSE IF HasSuffix(ToLower(ty), "[]") THEN QuoteDollar(v.s)
    ELSE QuoteString(v.s)

\* The second switch of SerializeValue: the first case that matches the
\* lower-case type name decides.
TypedLiteral(v, nt) ==
    IF nt \in {"boolean", "bool"} THEN Sprint(v)
    ELSE IF nt \in {"integer", "int", "bigint", "smallint", "serial", "bigserial"}
    THEN Sprint(v)
    ELSE IF nt \in {"real", "double precision", "numeric", "decimal"}
            \/ HasPrefix(nt, "numeric(")
    THEN Sprint(v)
    ELSE IF nt \in {"timestamp without time zone", "timestamp"}
            \/ HasPrefix(nt, "timestamp(")
    THEN Temporal(v, TRUE, TRUE, FALSE)
    ELSE IF nt \in {"timestamp with time zone", "timestamptz"}
            \/ (HasPrefix(nt, "timestamp(") /\ ContainsText(nt, "with time zone"))
    THEN Temporal(v, TRUE, TRUE, TRUE)
    ELSE IF nt = "date" THEN Temporal(v, TRUE, FALSE, FALSE)
    ELSE IF nt \in {"time without time zone", "time"} \/ HasPrefix(nt, "time(")
    THEN Temporal(v, FALSE, TRUE, FALSE)
    ELSE IF nt \in {"time with time zone", "timetz"} THEN Temporal(v, FALSE, TRUE, TRUE)
    ELSE IF nt \in {"interval", "uuid", "json", "jsonb", "numrange", "int4range",
                    "int8range", "tsrange", "tstzrange", "daterange"}
    THEN QuoteString(Sprint(v))
    ELSE IF HasSuffix(nt, "[]") THEN QuoteDollar(Sprint(v))
    ELSE QuoteString(Sprint(v))

\* SerializeValue(value, pgType): nil is NULL, a byte slice is handled by
\* the first switch, a pointer is followed, and any other value goes to the
\* second switch with the lower-case type name.
RECURSIVE SerializeValue(_, _)
SerializeValue(v, ty) ==
    CASE v.kind = "nil" -> Chars("NULL")
      [] v.kind = "nilbytes" -> Chars("NULL")
      [] v.kind = "bytes" -> BytesLiteral(v, ty)
      [] v.kind = "ptr" ->
            IF v.of = "nilptr" THEN Chars("NULL") ELSE SerializeValue(Deref(v), ty)
      [] OTHER -> TypedLiteral(v, ToLower(ty))

\* One call of SerializeValue.
CallSerializeValue ==
    /\ qPc = "callSerialize"
    /\ qLiteral' = SerializeValue(value, pgType)
    /\ qPc' = "returnedSerialize"
    /\ UNCHANGED <<qInput, qTag, value, pgType, column, generatedExpr, colDef>>
    /\ UNCHANGED outsideQuote

SerializeNext == CallSerializeValue

\* The type names SerializeValue is called with here, as format_type
\* prints them: every name its switch knows, a parameterized form of each
\* family, an array, an enum and the empty name SerializeRow passes for a
\* value without a column.
TypeNames ==
    {"boolean", "bool", "integer", "int", "bigint", "smallint", "serial", "bigserial",
     "real", "double precision", "numeric", "decimal", "numeric(10,2)",
     "timestamp without time zone", "timestamp", "timestamp(3) without time zone",
     "timestamp with time zone", "timestamptz", "timestamp(3) with time zone",
     "date", "time without time zone", "time", "time(3) without time zone",
     "time with time zone", "timetz", "time(3) with time zone",
     "interval", "uuid", "json", "jsonb", "numrange", "tstzrange",
     "text[]", "integer[]",
     "text", "character varying", "character varying(20)", "varchar", "varchar(20)",
     "character", "character(5)", "char", "char(5)", "name", "citext",
     "bytea", "inet", "point", "mood", ""}

\* The same names as a caller may write them.
PgTypes == TypeNames \cup {ToUpper(t) : t \in TypeNames}

\* The texts a driver delivers numbers and booleans as when it delivers
\* them in a byte slice.
NumberTexts == {Chars("42"), Chars("1.50"), Chars("7")}

Times ==
    {Time(2024, 3, 5, 14, 7, 9, 0, 0),
     Time(2024, 3, 5, 14, 7, 9, 500000, 330),
     Time(1999, 12, 31, 23, 59, 59, 123456, 0 - 480)}

\* The values SerializeValue is called with here.
Values(n) ==
    {Nil, Value("nilbytes", "none", FALSE, 0, <<>>, ZeroTime), NilPointer}
        \cup {BoolValue(b) : b \in BOOLEAN}
        \cup {IntValue(i) : i \in {0 - 12, 0, 7}}
        \cup {FloatValue(f) : f \in {15, 20}}
        \cup {StringValue(s) : s \in Strings(n)}
        \cup {BytesValue(s) : s \in Strings(n) \cup NumberTexts}
        \cup {TimeValue(t) : t \in Times}
        \cup {PointerTo(v) : v \in {Nil, IntValue(7), StringValue(<<"a", "'">>),
                                    BytesValue(<<"a", "\\">>)}}

\* SerializeValue on any of the values and type names.
SerializeInit ==
    /\ value \in Values(MaxStrLen)
    /\ pgType \in PgTypes
    /\ qInput = <<>>
    /\ qLiteral = <<>>
    /\ qPc = "callSerialize"
    /\ qTag = <<>>
    /\ ColumnIdle
    /\ ApplyIdle
    /\ CaptureIdle
    /\ DumpIdle
    /\ FlattenIdle
    /\ CreateIdle

SpecSerialize == SerializeInit /\ [][SerializeNext]_vars

(***************************************************************************)
(* pgconn.dumpTables: the definition of one column                         *)
(***************************************************************************)
\* sql.NullInt64 and sql.NullString: NULL, or a value.
Null(zero) == [valid |-> FALSE, v |-> zero]
Valid(v) == [valid |-> TRUE, v |-> v]

\* escapeDoubleQuotes and QuoteIdentifier.
RECURSIVE EscapeDoubleQuotes(_)
EscapeDoubleQuotes(str) ==
    IF Len(str) = 0 THEN ""
    ELSE (IF SubSeq(str, 1, 1) = "\"" THEN "\"\"" ELSE SubSeq(str, 1, 1))
             \o EscapeDoubleQuotes(SubSeq(str, 2, Len(str)))

QuoteIdentifier(str) == "\"" \o EscapeDoubleQuotes(str) \o "\""

\* case "character varying" and case "character".
LengthType(short, charMaxLen) ==
    IF charMaxLen.valid THEN short \o "(" \o ToString(charMaxLen.v) \o ")" ELSE short

\* A plausible slip: a precision without a scale is written with scale 0.
NumericTypeScaled(numPrecision, numScale) ==
    IF numPrecision.valid
    THEN "numeric(" \o ToString(numPrecision.v) \o "," \o ToString(numScale.v) \o ")"
    ELSE "numeric"

\* case "numeric".
NumericType(numPrecision, numScale) ==
    IF numPrecision.valid /\ numScale.valid
    THEN "numeric(" \o ToString(numPrecision.v) \o "," \o ToString(numScale.v) \o ")"
    ELSE IF numPrecision.valid
    THEN "numeric(" \o ToString(numPrecision.v) \o ")"
    ELSE "numeric"

\* The switch on dataType.
TypeString(col) ==
    CASE col.dataType = "character varying" -> LengthType("varchar", col.charMaxLen)
      [] col.dataType = "character" -> LengthType("char", col.charMaxLen)
      [] col.dataType = "numeric" -> NumericType(col.numPrecision, col.numScale)
      [] col.dataType = "ARRAY" -> col.udtName
      [] col.dataType = "USER-DEFINED" ->
            IF col.udtSchema # "public" THEN col.udtSchema \o "." \o col.udtName
            ELSE col.udtName
      [] OTHER -> col.dataType

\* colDef for one row of information_schema.columns; generated is the
\* entry of generatedCols for the column, NULL when it has none.
ColumnDef(col, generated) ==
    LET notNull == IF col.isNullable.valid /\ col.isNullable.v = "NO"
                   THEN " NOT NULL" ELSE ""
    IN  QuoteIdentifier(col.colName) \o " " \o TypeString(col)
            \o (IF generated.valid
                THEN " GENERATED ALWAYS AS (" \o generated.v \o ") STORED" \o notNull
                ELSE notNull
                        \o (IF col.colDefault.valid /\ col.colDefault.v # ""
                            THEN " DEFAULT " \o col.colDefault.v ELSE ""))

\* One iteration of the loop over colRows.
AppendColumn ==
    /\ qPc = "callColumn"
    /\ colDef' = ColumnDef(column, generatedExpr)
    /\ qPc' = "returnedColumn"
    /\ UNCHANGED <<qInput, qLiteral, qTag, value, pgType, column, generatedExpr>>
    /\ UNCHANGED outsideQuote

ColumnNext == AppendColumn

\* The values the nullable integer columns of the catalog hold here.
NullableInts == {Null(0), Valid(0), Valid(2), Valid(10)}

\* The rows of information_schema.columns rendered here.
ColumnRows ==
    [colName : {"id", "a\"b"},
     dataType : {"character varying", "character", "numeric", "ARRAY", "USER-DEFINED",
                 "integer"},
     charMaxLen : {Null(0), Valid(10)},
     isNullable : {Null(""), Valid("YES"), Valid("NO")},
     colDefault : {Null(""), Valid(""), Valid("0")},
     udtSchema : {"public", "app"},
     udtName : {"_text"},
     numPrecision : NullableInts,
     numScale : NullableInts]

\* The definition of any of the rows, generated or not.
ColumnInit ==
    /\ column \in ColumnRows
    /\ generatedExpr \in {Null(""), Valid("a + 1")}
    /\ colDef = ""
    /\ qInput = <<>>
    /\ qLiteral = <<>>
    /\ qPc = "callColumn"
    /\ qTag = <<>>
    /\ value = Nil
    /\ pgType = ""
    /\ ApplyIdle
    /\ CaptureIdle
    /\ DumpIdle
    /\ FlattenIdle
    /\ CreateIdle

SpecColumn == ColumnInit /\ [][ColumnNext]_vars

(***************************************************************************)
(* C1.  For every list of distinct input tables and every acyclic set of   *)
(* foreign-key rows without self-references, getImportOrder returns an     *)
(* order in which the referenced table of every in-set row comes strictly  *)
(* before the dependent table; the counter of a table is the number of     *)
(* in-set tables it depends on (less those already emitted and visited);   *)
(* {child, parent} with child -> parent yields [parent, child].            *)
(***************************************************************************)
InSetFks == Restrict(fks, Range(tables))

\* The pop of r has already decremented the counter of t.
Discounted(t, r) ==
    /\ r \in Range(result)
    /\ ~(pc = "range" /\ r = cur /\ t \in pending)

C1_ImportOrderRespectsForeignKeys ==
    /\ (pc = "ordered" /\ fkQuery = "ok" /\ Acyclic(InSetFks)) =>
          \A e \in InSetFks :
              /\ Pos(result, e[2]) >= 1
              /\ Pos(result, e[2]) < Pos(result, e[1])
    /\ (pc \in {"kahn", "range"}) =>
          \A t \in Range(tables) :
              inDegree[t] =
                  Cardinality({r \in Successors(InSetFks, t) : ~Discounted(t, r)})
    /\ (pc = "ordered" /\ fkQuery = "ok" /\ Range(tables) = {1, 2}
            /\ InSetFks = {<<1, 2>>}) =>
          result = <<2, 1>>

\* A chain 1 -> 2 -> 3 given dependents first comes out referenced first.
C1_Witness ==
    /\ pc = "ordered"
    /\ fkQuery = "ok"
    /\ tables = <<1, 2, 3>>
    /\ fks = {<<1, 2>>, <<2, 3>>}
    /\ result = <<3, 2, 1>>

(***************************************************************************)
(* C2.  In loadSeedData every TRUNCATE is issued before any artifact is    *)
(* executed; tables are truncated in the reverse of the order returned by  *)
(* getImportOrder (dependents before the tables they reference) and        *)
(* artifacts are executed in the forward order (referenced tables first);  *)
(* the commit comes only after every artifact was executed or skipped.     *)
(***************************************************************************)
IsPrefix(a, b) == Len(a) <= Len(b) /\ SubSeq(b, 1, Len(a)) = a

\* The tables of the log entries whose operation is in ops, in log order.
LoggedTables(ops) ==
    LET sel == SelectSeq(txLog, LAMBDA e : e.op \in ops)
    IN  [i \in DOMAIN sel |-> sel[i].table]

C2_TruncateAllThenInsertThenCommit ==
    LET truncated == LoggedTables({"TRUNCATE"})
        handled == LoggedTables({"EXEC", "EXEC-FAILED", "SKIP"})
        executed == LoggedTables({"EXEC", "EXEC-FAILED"})
    IN  /\ \A i, j \in DOMAIN txLog :
              (txLog[i].op = "TRUNCATE" /\ txLog[j].op # "TRUNCATE") => i < j
        /\ IsPrefix(truncated, Reverse(result))
        /\ (handled # <<>>) => truncated = Reverse(result)
        /\ IsPrefix(handled, result)
        /\ \A i \in DOMAIN txLog :
              txLog[i].op = "COMMIT" =>
                  /\ i = Len(txLog)
                  /\ LoggedTables({"EXEC", "SKIP"}) = result
        /\ (fkQuery = "ok" /\ Acyclic(InSetFks)) =>
              \A e \in InSetFks :
                  /\ (e[1] \in Range(truncated) /\ e[2] \in Range(truncated)) =>
                        Pos(truncated, e[1]) < Pos(truncated, e[2])
                  /\ (e[1] \in Range(executed) /\ e[2] \in Range(executed)) =>
                        Pos(executed, e[2]) < Pos(executed, e[1])

\* A committed replay of the chain 1 -> 2 -> 3 with every artifact executed.
C2_Witness ==
    /\ ret = "ok"
    /\ fkQuery = "ok"
    /\ fks = {<<1, 2>>, <<2, 3>>}
    /\ LoggedTables({"TRUNCATE"}) = <<1, 2, 3>>
    /\ LoggedTables({"EXEC"}) = <<3, 2, 1>>
    /\ txLog[Len(txLog)].op = "COMMIT"

(***************************************************************************)
(* C3.  If a TRUNCATE, an artifact read, an artifact execution or the      *)
(* commit fails, loadSeedData returns an error with the transaction rolled *)
(* back: every table holds what it held before the call.                   *)
(***************************************************************************)
C3_FailureLeavesTablesUntouched ==
    /\ (ret = "err") => (~txOpen /\ dbData = InitialData)
    /\ (ret = "running") => dbData = InitialData

\* A failure after tables were truncated and one artifact was executed.
C3_Witness ==
    /\ ret = "err"
    /\ \E i \in DOMAIN txLog : txLog[i].op = "TRUNCATE"
    /\ \E i \in DOMAIN txLog : txLog[i].op = "EXEC"
    /\ dbData = InitialData

(***************************************************************************)
(* C4.  Seed capture ends by rolling back its transaction on every exit    *)
(* path, success included: once extractSeedData has returned, no staging   *)
(* table and no write of the population script outlives the transaction.   *)
(***************************************************************************)
C4_CaptureNeverCommits ==
    (capRet \in {"ok", "err"}) => (srcTemps = {} /\ ~srcWrote)

(***************************************************************************)
(* C5.  As claimed: after a successful capture every table of the list has *)
(* exactly one artifact file, whether or not rows were captured.           *)
(***************************************************************************)
TimesWritten(t) == Cardinality({i \in DOMAIN writes : writes[i] = t})

C5_EveryListedTableHasArtifact ==
    (capRet = "ok") =>
        \A t \in Range(capTables) : t \in DOMAIN outputDir /\ TimesWritten(t) = 1

(***************************************************************************)
(* C5, amended.  After a successful capture every table of the list whose  *)
(* staging table shows columns has exactly one artifact file, whether or   *)
(* not rows were captured; a table whose staging table shows no columns    *)
(* is skipped and has no artifact; no other file is written.               *)
(***************************************************************************)
C5_EveryIntrospectedTableHasArtifact ==
    (capRet = "ok") =>
        /\ \A t \in Range(capTables) \ noColumns :
              t \in DOMAIN outputDir /\ TimesWritten(t) = 1
        /\ \A t \in noColumns : t \notin DOMAIN outputDir /\ TimesWritten(t) = 0
        /\ DOMAIN outputDir \subseteq Range(capTables)

\* A successful capture with a table that captured rows, one that captured
\* none, and one that shows no columns.
C5_Witness ==
    /\ capRet = "ok"
    /\ \E t \in DOMAIN outputDir : outputDir[t].inserts > 0
    /\ \E t \in DOMAIN outputDir : outputDir[t].marker
    /\ noColumns # {}

(***************************************************************************)
(* C8.  The text DumpSchema builds holds its non-empty sections in the     *)
(* fixed order schemas, extensions, enum types, domain types, composite    *)
(* types, sequences, non-SQL functions, tables, SQL functions, views,      *)
(* primary keys, unique constraints, check constraints, foreign keys,      *)
(* indexes, triggers, whatever the catalog holds; no FOREIGN KEY statement *)
(* referencing a table comes before the CREATE TABLE statement of it.      *)
(***************************************************************************)
SectionOrder ==
    <<"-- Schemas", "-- Extensions", "-- Enum types", "-- Domain types",
      "-- Composite types", "-- Sequences", "-- Functions (PL/pgSQL)", "-- Tables",
      "-- Functions (SQL)", "-- Views", "-- Primary keys", "-- Unique constraints",
      "-- Check constraints", "-- Foreign keys", "-- Indexes", "-- Triggers">>

\* The header of the section each kind of statement belongs to.
SectionOf ==
    [k \in PlainKinds \cup OnTableKinds \cup {"table", "foreign-key"} |->
        HeaderText(k)]

\* The header line above line i of the text.
HeaderAbove(text, i) ==
    LET hs == {j \in 1..i : text[j].kind = "header"}
    IN  IF hs = {} THEN "" ELSE text[CHOOSE j \in hs : \A h \in hs : h <= j].table

SectionsInOrder(text) ==
    /\ \A i, j \in DOMAIN text :
          (i < j /\ text[i].kind = "header" /\ text[j].kind = "header") =>
              Pos(SectionOrder, text[i].table) < Pos(SectionOrder, text[j].table)
    /\ \A i \in DOMAIN text :
          /\ (text[i].kind = "header") =>
                /\ Pos(SectionOrder, text[i].table) >= 1
                /\ i < Len(text)
                /\ text[i + 1].kind \notin {"header", "blank"}
          /\ (text[i].kind \notin {"header", "blank"}) =>
                HeaderAbove(text, i) = SectionOf[text[i].kind]
    /\ \A i, j \in DOMAIN text :
          (text[i].kind = "foreign-key" /\ text[j].kind = "table"
                /\ text[j].table = text[i].ref) => j < i

C8_SectionsInFixedOrder ==
    /\ SectionsInOrder(parts)
    /\ SectionsInOrder(dumpOut)
    /\ (dumpRet = "ok") => dumpOut = parts

\* A finished dump with a foreign key between two dumped tables.
C8_Witness ==
    /\ dumpRet = "ok"
    /\ \E i, j \in DOMAIN dumpOut :
          /\ dumpOut[i] = Object("foreign-key", "orders", "users")
          /\ dumpOut[j] = Object("table", "users", "")
          /\ j < i
    /\ Len(dumpOut) >= 7

(***************************************************************************)
(* C9.  Every primary-key, unique, check and foreign-key constraint, index *)
(* and trigger statement of the dump refers only to tables whose CREATE    *)
(* TABLE statement comes earlier in the same dump, for every catalog and   *)
(* every exclusion set.                                                    *)
(***************************************************************************)
CreatedBefore(text, i, t) ==
    \E j \in 1..(i - 1) : text[j] = Object("table", t, "")

C9_StatementsReferToDumpedTables ==
    (dumpRet = "ok") =>
        \A i \in DOMAIN dumpOut :
            /\ (dumpOut[i].kind \in OnTableKinds \cup {"foreign-key"}) =>
                  CreatedBefore(dumpOut, i, dumpOut[i].table)
            /\ (dumpOut[i].kind = "foreign-key") =>
                  CreatedBefore(dumpOut, i, dumpOut[i].ref)

(***************************************************************************)
(* C6.  Flatten is all-or-nothing for the migrations directory: when it    *)
(* returns an error (a file removal that fails partway, a baseline that    *)
(* cannot be written) and the directory held at least one file of an       *)
(* applied version at the start, the directory is not left with zero       *)
(* migration files.                                                        *)
(***************************************************************************)
C6_FailedFlattenLeavesAMigrationFile ==
    (/\ flatRet = "err"
     /\ \E f \in DOMAIN dirAtStart : f.version \in appliedRows)
        => DOMAIN migrationsDir # {}

(***************************************************************************)
(* C7.  After Flatten succeeds with a non-empty list of applied versions,  *)
(* every file of an applied version has been deleted, the one new file is  *)
(* <latest applied version>_initial.sql, its Up body is the DDL of the     *)
(* schema without the ledger table, and the files of versions that are not *)
(* applied are untouched.                                                  *)
(***************************************************************************)
MaxOf(S) == CHOOSE m \in S : \A x \in S : x <= m

Unapplied(dir) == {f \in DOMAIN dir : f.version \notin appliedRows}

\* The statements of a text: its lines but the headers and blank lines.
Statements(text) ==
    {text[i] : i \in {j \in DOMAIN text : text[j].kind \notin {"header", "blank"}}}

UpBody(content) == SubSeq(content, 3, Len(content) - 1)

C7_FlattenLeavesOneBaseline ==
    (flatRet = "ok" /\ appliedRows # {} /\ ledgerExists) =>
        LET baseline == MigrationFile(MaxOf(appliedRows), "initial")
        IN  /\ DOMAIN migrationsDir = Unapplied(dirAtStart) \cup {baseline}
            /\ \A f \in Unapplied(dirAtStart) : migrationsDir[f] = dirAtStart[f]
            /\ Len(migrationsDir[baseline]) >= 3
            /\ SubSeq(migrationsDir[baseline], 1, 2)
                  = <<Directive("-- +goose Up"), Directive("-- +goose StatementBegin")>>
            /\ migrationsDir[baseline][Len(migrationsDir[baseline])]
                  = Directive("-- +goose StatementEnd")
            /\ UpBody(migrationsDir[baseline]) = dumpOut
            /\ \A o \in Statements(UpBody(migrationsDir[baseline])) :
                  o.table # "goose_db_version"
            /\ (failedPhases = {}) =>
                  Statements(UpBody(migrationsDir[baseline]))
                      = {o \in catalog : o.table # "goose_db_version"}

\* Scenario D: versions 1, 2 and 3 applied, three files, one baseline left.
C7_Witness ==
    /\ flatRet = "ok"
    /\ appliedRows = {0, 1, 2, 3}
    /\ DOMAIN dirAtStart
          = {MigrationFile(1, "add"), MigrationFile(2, "add"), MigrationFile(3, "add")}
    /\ DOMAIN migrationsDir = {MigrationFile(3, "initial")}
    /\ Object("table", "users", "") \in Statements(UpBody(migrationsDir[MigrationFile(3, "initial")]))

(***************************************************************************)
(* C10.  Round trip of text literals: for every string over an alphabet    *)
(* with the single quote and the backslash, the literal QuoteString        *)
(* returns, parsed under the PostgreSQL rules for string literals ('...'   *)
(* with doubled quotes, E'...' with backslash escapes), is the original    *)
(* string.                                                                 *)
(***************************************************************************)
\* The line feed, the character the escape \n stands for.
LineFeed == "<LF>"

\* The character an escape \c of an E'...' literal stands for.
Unescape(c) == IF c = "n" THEN LineFeed ELSE c

ParseError == [ok |-> FALSE, value |-> <<>>]

Prepend(c, r) == IF r.ok THEN [ok |-> TRUE, value |-> <<c>> \o r.value] ELSE r

\* The body of a literal from position i on: '' is a quote, a lone quote ends
\* the literal and must end the text; in an E'...' literal a backslash takes
\* the next character as an escape.
RECURSIVE ScanBody(_, _, _)
ScanBody(lit, i, esc) ==
    IF i > Len(lit) THEN ParseError
    ELSE IF lit[i] = "'"
    THEN IF i < Len(lit) /\ lit[i + 1] = "'"
         THEN Prepend("'", ScanBody(lit, i + 2, esc))
         ELSE IF i = Len(lit) THEN [ok |-> TRUE, value |-> <<>>] ELSE ParseError
    ELSE IF esc /\ lit[i] = "\\"
    THEN IF i = Len(lit) THEN ParseError
         ELSE Prepend(Unescape(lit[i + 1]), ScanBody(lit, i + 2, esc))
    ELSE Prepend(lit[i], ScanBody(lit, i + 1, esc))

ParseLiteral(lit) ==
    IF Len(lit) >= 2 /\ lit[1] = "E" /\ lit[2] = "'" THEN ScanBody(lit, 3, TRUE)
    ELSE IF Len(lit) >= 1 /\ lit[1] = "'" THEN ScanBody(lit, 2, FALSE)
    ELSE ParseError

C10_LiteralParsesBack ==
    (qPc = "returned") => ParseLiteral(qLiteral) = [ok |-> TRUE, value |-> qInput]

(***************************************************************************)
(* C11.  For every payload, quoteDollar picks the shortest tag q, qq, ...  *)
(* such that $tag$ does not occur in the payload, and in the literal       *)
(* $tag$payload$tag$ the first $tag$ after the opening delimiter is the    *)
(* closing delimiter, so that parsing the literal gives back the payload,  *)
(* also for payloads that end with '$' characters.                         *)
(***************************************************************************)
\* The tags q, qq, ... of at most n characters.
Tags(n) == {[i \in 1..k |-> "q"] : k \in 1..n}

\* A dollar-quoted literal read back: the opening delimiter runs to the
\* second '$'; the body runs to the first occurrence of the delimiter, which
\* must end the text.
ParseDollar(lit) ==
    LET closers == {i \in 2..Len(lit) : lit[i] = "$"}
    IN  IF Len(lit) < 2 \/ lit[1] # "$" \/ closers = {} THEN ParseError
        ELSE LET open == CHOOSE i \in closers : \A j \in closers : i <= j
                 delim == SubSeq(lit, 1, open)
                 hits == {i \in (open + 1)..(Len(lit) - Len(delim) + 1) :
                            SubSeq(lit, i, i + Len(delim) - 1) = delim}
             IN  IF hits = {} THEN ParseError
                 ELSE LET close == CHOOSE i \in hits : \A j \in hits : i <= j
                      IN  IF close + Len(delim) - 1 = Len(lit)
                          THEN [ok |-> TRUE, value |-> SubSeq(lit, open + 1, close - 1)]
                          ELSE ParseError

ShortestFreeTag ==
    /\ ~ContainsString(qInput, Delimiter(qTag))
    /\ \A t \in Tags(Len(qTag)) :
          Len(t) < Len(qTag) => ContainsString(qInput, Delimiter(t))

C11_DollarLiteralParsesBack ==
    (qPc = "returnedDollar") =>
        /\ ShortestFreeTag
        /\ ParseDollar(qLiteral) = [ok |-> TRUE, value |-> qInput]

(***************************************************************************)
(* C12.  For every list of distinct tables and every edge set, cyclic ones *)
(* and self-referencing tables included, getImportOrder returns a          *)
(* permutation of its input: every input table once, no other table.       *)
(***************************************************************************)
C12_ImportOrderIsPermutation ==
    (pc = "ordered") =>
        /\ Len(result) = Len(tables)
        /\ Range(result) = Range(tables)
        /\ NoDuplicates(result)

\* Tables 1 and 2 reference each other; table 3 is free.
C12_Witness ==
    /\ pc = "ordered"
    /\ fkQuery = "ok"
    /\ tables = <<2, 1, 3>>
    /\ fks = {<<1, 2>>, <<2, 1>>}
    /\ result = <<3, 2, 1>>

(***************************************************************************)
(* C13.  getImportOrder is deterministic: its result is a function of the  *)
(* input list and the edge set, whatever order the dependency map is       *)
(* ranged in; among the tables ready at the same time the alphabetically   *)
(* first is emitted first.                                                 *)
(***************************************************************************)
MinOf(S) == CHOOSE m \in S : \A x \in S : m <= x

\* The one order the inputs fix: the alphabetically first ready table is
\* emitted next; when no table is ready the rest follows in input order.
RECURSIVE SmallestReadyFirst(_, _, _)
SmallestReadyFirst(done, tbls, E) ==
    LET ready == {t \in Range(tbls) \ Range(done) : Successors(E, t) \subseteq Range(done)}
    IN  IF ready = {}
        THEN done \o SelectSeq(tbls, LAMBDA t : t \notin Range(done))
        ELSE SmallestReadyFirst(Append(done, MinOf(ready)), tbls, E)

C13_ImportOrderIsDeterministic ==
    (pc = "ordered" /\ fkQuery = "ok") =>
        /\ result = SmallestReadyFirst(<<>>, tables, InSetFks)
        /\ \A t, u \in Range(tables) :
              (/\ Successors(InSetFks, t) = {}
               /\ Successors(InSetFks, u) = {}
               /\ t < u) => Pos(result, t) < Pos(result, u)

\* Tables 2 and 3 both wait for table 1 and are listed last first.
C13_Witness ==
    /\ pc = "ordered"
    /\ fkQuery = "ok"
    /\ tables = <<3, 2, 1>>
    /\ fks = {<<2, 1>>, <<3, 1>>}
    /\ result = <<1, 2, 3>>

(***************************************************************************)
(* C14.  Apply runs at most the single initial migration (none when none   *)
(* is pending), then loads the seed data, and returns without running the  *)
(* remaining pending migrations: they stay unapplied.                      *)
(***************************************************************************)
C14_ApplyRunsAtMostOneMigration ==
    (applyPc = "done") => migrationsRun <= 1

(***************************************************************************)
(* C16.  Replay is idempotent: when loadSeedData has run twice in a row on *)
(* the same artifacts and the same target, each run truncating first, the  *)
(* tables hold after the second run what they held after the first.        *)
(***************************************************************************)
C16_ReplayIsIdempotent ==
    (run = 2 /\ pc = "done") => dbData = afterFirst

\* The second run has truncated and re-inserted a table and committed.
C16_Witness ==
    /\ run = 2
    /\ pc = "done"
    /\ ret = "ok"
    /\ \E t \in seedDir : afterFirst[t] = "seeded" /\ dbData[t] = "seeded"
    /\ \E i \in DOMAIN txLog : txLog[i].op = "EXEC"
    /\ \E t \in AllTables \ seedDir : dbData[t] = "empty"

(***************************************************************************)
(* C15.  When the seed directory holds legacy CSV artifacts and no SQL     *)
(* artifact, loadSeedData returns the error that asks to regenerate the    *)
(* seed files, before any transaction is opened and before any TRUNCATE or *)
(* INSERT is executed; it never returns success having skipped them.       *)
(***************************************************************************)
\* The glob has found CSV files and no SQL file.  The only return the
\* function has from there is the one with the regenerate message.
LegacyDirectory == csvFiles /\ seedDir = {}

C15_LegacyDirectoryIsFatal ==
    LegacyDirectory =>
        /\ pc = "done"
        /\ ret = "err"
        /\ ~txOpen
        /\ txLog = <<>>
        /\ dbData = InitialData
        /\ txData = InitialData

C15_Witness ==
    /\ LegacyDirectory
    /\ pc = "done"
    /\ ret = "err"

(***************************************************************************)
(* C17.  For a table whose staging table holds n rows at export time the   *)
(* artifact holds exactly n INSERT statements into the real table, one per *)
(* row, when n > 0, and exactly the no-data marker line when n = 0; the    *)
(* artifact of a table that shows columns is never empty, never missing.   *)
(***************************************************************************)
C17_ArtifactHasOneInsertPerRow ==
    /\ \A t \in DOMAIN outputDir :
          LET n == staging[t]
              lines == outputDir[t].lines
          IN  /\ lines # <<>>
              /\ (n > 0) =>
                    /\ Len(lines) = n
                    /\ \A i \in 1..n :
                          lines[i] = [stmt |-> "INSERT INTO", table |-> t, row |-> i]
              /\ (n = 0) =>
                    lines = <<[stmt |-> "-- No data for table", table |-> t, row |-> 0]>>
    /\ (capRet = "ok") => Range(capTables) \ noColumns \subseteq DOMAIN outputDir

\* A finished capture with a table of MaxRows rows and a table of none.
C17_Witness ==
    /\ capRet = "ok"
    /\ \E t \in DOMAIN outputDir :
          staging[t] = MaxRows /\ Len(outputDir[t].lines) = MaxRows
    /\ \E t \in DOMAIN outputDir :
          staging[t] = 0 /\ outputDir[t].lines[1].stmt = "-- No data for table"

(***************************************************************************)
(* C18.  If the population script file does not exist, capture does not    *)
(* fail: no script is executed and capture goes on with every staging      *)
(* table empty, so that every artifact written is a no-data marker; any    *)
(* other error reading the script, and any error executing it, aborts      *)
(* capture with an error.                                                  *)
(***************************************************************************)
ScriptStep ==
    (capPc = "script") =>
        /\ (scriptFile' = "missing") =>
              /\ capRet' = "running"
              /\ capPc' \in {"export", "commit"}
              /\ capTxOpen'
        /\ (scriptFile' \in {"unreadable", "failed"}) =>
              /\ capRet' = "err"
              /\ capPc' = "done"
              /\ ~capTxOpen'

ScriptOutcome ==
    /\ (scriptFile = "missing") =>
          /\ \A t \in Range(capTables) : staging[t] = 0
          /\ ~txWrote
          /\ \A t \in DOMAIN outputDir : outputDir[t].lines = <<NoDataComment(t)>>
          /\ (capRet = "ok") => Range(capTables) \ noColumns \subseteq DOMAIN outputDir
    /\ (scriptFile \in {"unreadable", "failed"}) =>
          /\ capRet = "err"
          /\ outputDir = <<>>

C18_MissingScriptIsNotFatal == []ScriptOutcome /\ [][ScriptStep]_vars

\* Capture without a script finished and wrote a marker file.
C18_Witness ==
    /\ scriptFile = "missing"
    /\ capRet = "ok"
    /\ outputDir # <<>>

(***************************************************************************)
(* C19.  If a catalog query of any phase fails, per-row scan errors and    *)
(* the per-object sub-queries (enum labels, domain constraints, composite  *)
(* attributes, table columns) included, DumpSchema returns an error with   *)
(* the phase name and the empty string: no partial DDL is returned and no  *)
(* such error goes unreturned.                                             *)
(***************************************************************************)
C19_EveryDumpFailureIsReturned ==
    (failedPhases # {}) =>
        /\ dumpRet # "ok"
        /\ dumpOut = <<>>
        /\ (dumpRet = "err") => failedPhases = {PhaseOrder[phase]}

\* C20: when the ledger table is missing or holds no applied version, Flatten
\* is a no-op: no phase of the schema dump runs, no migration file is deleted
\* or written, and once the ledger has been read Flatten returns success.
C20_FlattenWithoutVersionsIsNoOp ==
    (~ledgerExists \/ appliedRows = {}) =>
        /\ phase = 0 /\ parts = <<>> /\ dumpOut = <<>> /\ schema = <<>>
        /\ migrationsDir = dirAtStart
        /\ flatPc \in {"getAppliedVersions", "done"}
        /\ (flatPc = "done") => flatRet \in {"ok", "err"}
        /\ (flatRet = "ok") => flatPc = "done" /\ versions = <<>>

\* Flatten has returned success on a directory that holds migration files
\* while the ledger has no applied version.
C20_Witness ==
    /\ ~ledgerExists \/ appliedRows = {}
    /\ flatPc = "done" /\ flatRet = "ok"
    /\ DOMAIN dirAtStart # {}
    /\ migrationsDir = dirAtStart

NonNull(v) ==
    /\ v.kind \notin {"nil", "nilbytes"}
    /\ v.kind = "ptr" => v.of \notin {"nilptr", "nil"}

\* The textual form of a value: the text of a byte slice, what %v prints
\* for any other value, and that of the target for a pointer.
TextOf(v) ==
    LET w == IF v.kind = "ptr" THEN Deref(v) ELSE v
    IN  IF w.kind = "bytes" THEN w.s ELSE Sprint(w)

\* The declared type is text-like: text, character varying, varchar,
\* character, char (with or without a length), name or citext.
TextLike(ty) ==
    LET nt == ToLower(ty)
    IN  \/ nt \in {"text", "character varying", "varchar", "character", "char", "name",
                   "citext"}
        \/ \E pre \in {"character varying(", "varchar(", "character(", "char("} :
              HasPrefix(nt, pre) /\ HasSuffix(nt, ")")

RECURSIVE DoubledQuotes(_)
DoubledQuotes(s) ==
    IF s = <<>> THEN <<>>
    ELSE IF Head(s) = "'" THEN <<"'", "'">> \o DoubledQuotes(Tail(s))
    ELSE <<Head(s)>> \o DoubledQuotes(Tail(s))

\* C22: under a text-like declared type the literal of a value is the value
\* in single quotes with every single quote in it doubled, and it starts with
\* E exactly when the value holds a backslash.
C22_TextLiteralIsQuotedAndEscaped ==
    (qPc = "returnedSerialize" /\ TextLike(pgType) /\ NonNull(value)) =>
        LET text == TextOf(value)
            prefix == IF \E i \in DOMAIN text : text[i] = "\\" THEN <<"E">> ELSE <<>>
        IN  qLiteral = prefix \o <<"'">> \o DoubledQuotes(text) \o <<"'">>

\* The string a'\ under the type text has been serialized to E'a''\'.
C22_Witness ==
    /\ qPc = "returnedSerialize"
    /\ pgType = "text"
    /\ value = StringValue(<<"a", "'", "\\">>)
    /\ qLiteral = <<"E", "'", "a", "'", "'", "\\", "'">>

\* The declared type is a boolean, integer or floating/numeric type.
NumberType(ty) ==
    LET nt == ToLower(ty)
    IN  \/ nt \in {"boolean", "bool", "integer", "int", "bigint", "smallint", "serial",
                   "bigserial", "real", "double precision", "numeric", "decimal"}
        \/ HasPrefix(nt, "numeric(")

\* C23: under a boolean, integer or floating/numeric declared type the
\* literal of a value that is not NULL is its textual form without quotes,
\* whether the driver delivers it as a bool, an integer, a float or a byte
\* slice.
C23_NumbersAreUnquoted ==
    (qPc = "returnedSerialize" /\ NumberType(pgType) /\ NonNull(value)
        /\ value.kind \in {"bool", "int", "float", "bytes"}
        /\ (value.kind = "bytes" => value.s \in NumberTexts)) =>
        qLiteral = TextOf(value)

\* The declared type carries a time zone, or is a zone-less timestamp, date
\* or time type.
WithTimeZone(ty) ==
    LET nt == ToLower(ty)
    IN  \/ nt \in {"timestamp with time zone", "timestamptz", "time with time zone",
                   "timetz"}
        \/ /\ HasPrefix(nt, "timestamp(") \/ HasPrefix(nt, "time(")
           /\ HasSuffix(nt, ") with time zone")

WithoutTimeZone(ty) ==
    LET nt == ToLower(ty)
    IN  \/ nt \in {"timestamp without time zone", "timestamp", "date",
                   "time without time zone", "time"}
        \/ /\ HasPrefix(nt, "timestamp(") \/ HasPrefix(nt, "time(")
           /\ HasSuffix(nt, ") without time zone")

\* The literal ends with the numeric UTC offset of t before its closing
\* quote.
EndsWithOffset(lit, t) ==
    LET suffix == OffsetText(t, <<":">>) \o <<"'">>
    IN  Len(lit) >= Len(suffix)
            /\ SubSeq(lit, Len(lit) - Len(suffix) + 1, Len(lit)) = suffix

\* C24: the literal of a time value ends with the numeric UTC offset under
\* every declared type that carries a time zone, and has no offset under the
\* zone-less timestamp, date and time types.
C24_ZonedTypesCarryOffset ==
    (qPc = "returnedSerialize" /\ value.kind = "time") =>
        /\ WithTimeZone(pgType) => EndsWithOffset(qLiteral, value.t)
        /\ WithoutTimeZone(pgType) => ~EndsWithOffset(qLiteral, value.t)

\* C27: the literal depends on the type name only up to letter case: it is
\* the literal of the same value under the type name in upper case and under
\* the type name in lower case.
C27_TypeNameCaseIsIgnored ==
    (qPc = "returnedSerialize") =>
        /\ qLiteral = SerializeValue(value, ToUpper(pgType))
        /\ qLiteral = SerializeValue(value, ToLower(pgType))

\* The tables Kahn's algorithm can emit: those whose dependencies among the
\* input tables can all be emitted before them.
RECURSIVE Emittable(_, _, _)
Emittable(done, tbls, E) ==
    LET ready == {t \in tbls \ done :
                    \A r \in tbls : (<<t, r>> \in E) => r \in done}
    IN  IF ready = {} THEN done ELSE Emittable(done \cup ready, tbls, E)

\* C25: when a cycle keeps tables from being emitted, getImportOrder still
\* returns: first the tables that can be emitted, each after the tables it
\* depends on, then all the others in their relative input order.
C25_CycleTablesKeepInputOrder ==
    (pc = "ordered" /\ fkQuery = "ok") =>
        LET can == Emittable({}, Range(tables), fks)
            k == Cardinality(can)
        IN  /\ Len(result) = Len(tables)
            /\ Range(SubSeq(result, 1, k)) = can
            /\ \A i, j \in 1..k : (<<result[i], result[j]>> \in fks) => j < i
            /\ SubSeq(result, k + 1, Len(result))
                   = SelectSeq(tables, LAMBDA t : t \notin can)

\* Two tables that reference each other were given in descending order
\* before a free table: the free table was emitted and the two follow it in
\* their input order.
C25_Witness ==
    /\ pc = "ordered" /\ fkQuery = "ok"
    /\ fks = {<<1, 2>>, <<2, 1>>}
    /\ tables = <<2, 1, 3>>
    /\ result = <<3, 2, 1>>

\* C26: when the foreign-key query fails, or the iteration of its rows ends
\* with an error, getImportOrder returns the input tables in input order and
\* no error: replay goes on to its transaction and works in that order.
C26_QueryFailureKeepsInputOrder ==
    (fkQuery \in {"queryErr", "rowsErr"}) =>
        /\ result = tables
        /\ pc = "ordered" => ret = "running"
        /\ IsPrefix(LoggedTables({"TRUNCATE"}), Reverse(tables))
        /\ ret = "ok" => LoggedTables({"TRUNCATE"}) = Reverse(tables)

\* The query failed and replay committed after truncating two tables, of
\* which the first references the second, in reverse input order.
C26_Witness ==
    /\ fkQuery \in {"queryErr", "rowsErr"}
    /\ ret = "ok" /\ pc = "done"
    /\ tables = <<1, 2>>
    /\ <<1, 2>> \in fks
    /\ LoggedTables({"TRUNCATE"}) = <<2, 1>>

\* The type written in colDef: the text between the quoted column name and
\* the next space.
RenderedType ==
    LET rest == SubSeq(colDef, Len(QuoteIdentifier(column.colName)) + 2, Len(colDef))
        spaces == {i \in 1..Len(rest) : SubSeq(rest, i, i) = " "}
    IN  IF spaces = {} THEN rest ELSE SubSeq(rest, 1, MinOf(spaces) - 1)

\* The type with the given arguments in parentheses.
WithArguments(name, args) == name \o "(" \o args \o ")"

\* A character varying or character column carries a length exactly when
\* the catalog reports one.
LengthOnlyWhenReported ==
    /\ column.dataType = "character varying" =>
          RenderedType = IF column.charMaxLen.valid
                         THEN WithArguments("varchar", ToString(column.charMaxLen.v))
                         ELSE "varchar"
    /\ column.dataType = "character" =>
          RenderedType = IF column.charMaxLen.valid
                         THEN WithArguments("char", ToString(column.charMaxLen.v))
                         ELSE "char"

LedgerReadFailed == flatPc = "done" /\ flatRet = "err" /\ versions = <<>> /\ phase = 0

\* C29: when reading the applied-version ledger or dumping the schema fails,
\* Flatten returns the error before it deletes or writes anything: it never
\* reaches the delete loop and the migrations directory is as it was.
C29_FailedReadOrDumpLeavesDirectory ==
    (LedgerReadFailed \/ failedPhases # {}) =>
        /\ migrationsDir = dirAtStart
        /\ flatPc \in {"dumpSchema", "done"}
        /\ flatPc = "done" => flatRet = "err"

\* The tables replay has logged one of the operations ops for.
TablesWith(ops) == {txLog[i].table : i \in {j \in DOMAIN txLog : txLog[j].op \in ops}}

\* C30: capture and replay agree on the artifact of a table with no rows.
\* Every artifact capture published for a table of zero rows is one replay
\* recognizes as holding no data, and every artifact of a table with rows is
\* one replay executes; so a table replay skipped had no rows, a table whose
\* artifact it executed had some, and either was truncated before.
C30_EmptyArtifactIsSkippedNotExecuted ==
    /\ \A f \in DOMAIN seedFiles :
          SkipArtifact(ContentKind(seedFiles[f])) <=> staging[f.base] = 0
    /\ \A t \in TablesWith({"SKIP"}) :
          t \in DOMAIN staging /\ staging[t] = 0
    /\ \A t \in TablesWith({"EXEC", "EXEC-FAILED"}) :
          t \in DOMAIN staging /\ staging[t] > 0
    /\ TablesWith({"SKIP", "EXEC", "EXEC-FAILED"}) \subseteq TablesWith({"TRUNCATE"})

\* Replay succeeded on a directory holding the artifact of an empty table,
\* truncated and skipped, and the artifact of a table with rows, executed.
C30_Witness ==
    /\ ret = "ok"
    /\ \E t, u \in DOMAIN staging :
          /\ SeedFile(t, "sql") \in DOMAIN seedFiles
          /\ SeedFile(u, "sql") \in DOMAIN seedFiles
          /\ staging[t] = 0
          /\ staging[u] > 0
          /\ t \in TablesWith({"SKIP"}) \cap TablesWith({"TRUNCATE"})
          /\ u \in TablesWith({"EXEC"})

====
